---- MODULE Spec2Model ----
(***************************************************************************)
(* Model of the NewsHub resilience engine.                                 *)
(*                                                                         *)
(*  - ErrorHandler (src/src/services/preloadingService.ts, lines 258-627): *)
(*    executeWithFallback / executeWithRetry, the rate limiter, the        *)
(*    in-memory cache and its AsyncStorage mirror, the error log.          *)
(*  - PreloadingService (src/src/services/preloadingService.ts, lines      *)
(*    9-238, and src/src/services/popularityRankingService.ts, lines       *)
(*    212-526): the preloaded cache and getArticles.                       *)
(*                                                                         *)
(* JavaScript runs each handler to its next await without interruption,   *)
(* so one action is the code between two awaits.  Time is Date.now() in    *)
(* ticks of 15 minutes.                                                    *)
(***************************************************************************)
EXTENDS Integers, Sequences, FiniteSets, TLC

(***************************************************************************)
(* Bounds of the model.                                                    *)
(***************************************************************************)
\* Date.now() ranges over 0..MaxTime.
MaxTime == 2
\* fallbackCalls.length ranges over 0..MaxFallbacks.
MaxFallbacks == 1
\* A provider result carries 0..MaxArticles articles.
MaxArticles == 1
\* AsyncStorage operations issued and not yet completed.
MaxPending == 1

(***************************************************************************)
(* Program constants.  One tick of now is 15 minutes; the two counts (100   *)
(* requests per window, 100 log records) are scaled down and are bounds.   *)
(***************************************************************************)
\* ErrorHandler.MAX_RETRIES (line 265).
MAX_RETRIES == 1
\* ErrorHandler.CACHE_TTL (line 267): 15 minutes, one tick.
CACHE_TTL == 1
\* checkRateLimit's default maxRequests (line 477): 100, here 2.
DEFAULT_MAX_REQUESTS == 2
\* checkRateLimit's default windowMs (line 478): 1 hour, four ticks.
DEFAULT_WINDOW_MS == 4
\* logError keeps the last 100 records (line 569), here 1.
MAX_ERROR_LOG == 1

(***************************************************************************)
(* Values.                                                                 *)
(***************************************************************************)
\* The concurrent callers of ErrorHandler, and the caller of the runs with
\* one call at a time.
Calls == {"c1", "c2"}
Solo == {"c1"}

\* CategoryService.getIndianNews (categoryService.ts:152-157) calls
\* executeWithFallback with this service name and cache key.
ServiceName == "CategoryIndia"
Keys == {"category_india_20"}
CacheKey == "category_india_20"

\* `${serviceName}` for the primary, `${serviceName}_Fallback_${i}` for
\* fallback i (line 308).
TierName(i) == [service |-> ServiceName, fallback |-> i]
Services == {TierName(i) : i \in 0..MaxFallbacks}

\* A ServiceResponse: which code produced it, its source label, and the
\* number of articles in data.
NoData == [kind |-> "none"]
ProviderData(i, n) == [kind |-> "provider", source |-> TierName(i), count |-> n]

\* A CacheEntry<T>, or no entry.
NoEntry == [present |-> FALSE]
Entry(d, t, ttl) == [present |-> TRUE, data |-> d, timestamp |-> t, ttl |-> ttl]

NoLimit == [present |-> FALSE]
Limit(n, r) == [present |-> TRUE, count |-> n, resetTime |-> r]

VARIABLES
    now,          \* Date.now()
    cache,        \* ErrorHandler.cache: key -> CacheEntry or NoEntry
    storage,      \* AsyncStorage: key -> persisted CacheEntry or NoEntry
    pending,      \* AsyncStorage operations in flight, in issue order
    rateLimits,   \* ErrorHandler.rateLimits: service -> window or NoLimit
    errorLog,     \* ErrorHandler.errorLog
    pc,           \* each call's position in executeWithFallback
    nfb,          \* each call's fallbackCalls.length
    tier,         \* each call's current tier: 0 primary, i fallback i
    retryCount,   \* executeWithRetry's retryCount
    cachedData,   \* executeWithFallback's const cachedData (line 287)
    allowed,      \* the value checkRateLimit returned for the tier
    result,       \* executeWithRetry's return value, then the call's
    outcome,      \* how the call ended: "none", "returned", "thrown"
    origin,       \* the code path that produced result
    tierLog,      \* per call, what happened to each tier so far
    probes,       \* per call, the cache tiers consulted on exhaustion, in order
    durable,      \* per call, how the read of AsyncStorage ended
    seen,         \* per call, what the map held for the key when line 287 read it
    startedAt,    \* per call, Date.now() when line 287 read the map
    unhandled     \* a promise of clearCache has rejected with no handler attached

ehVars == <<cache, storage, pending, rateLimits, errorLog, pc, nfb, tier,
            retryCount, cachedData, allowed, result, outcome, origin, tierLog,
            probes, durable, seen, startedAt, unhandled>>

\* Direct calls of checkRateLimit.
VARIABLES
    rlParams,     \* the maxRequests and windowMs the calls pass
    rlCalls,      \* per service, the window of the calls so far and their number
    rlLast,       \* per service, the value the last call returned
    rlGranted     \* per service, the calls of the current window that returned true

rlVars == <<rlParams, rlCalls, rlLast, rlGranted>>

\* PreloadingService.
VARIABLES
    variant,            \* which of the two PreloadingService sources is built
    networkService,     \* this.networkService is set
    popularityService,  \* this.popularityService is set
    preloadedCache,     \* this.preloadedCache: category -> entry or none
    task                \* the getArticles and preloadCategory calls in progress

plVars == <<variant, networkService, popularityService, preloadedCache, task>>

\* NetworkService of networkService.ts lines 6-200: one getArticles call.
VARIABLES
    nsConfig,            \* DEV_CONFIG: "network", "demoFirst" or "demoOnly"
    nsPc,                \* where getArticles stands
    nsCall,              \* the executeWithFallback call that is its dataPromise
    nsStartedAt,         \* Date.now() when the timer of line 70 was set
    nsResult,            \* the ServiceResponse it returned
    nsTimedOut,          \* the timer of line 70 won the race of line 74
    isNetworkAvailable   \* the field of line 10

nsVars == <<nsConfig, nsPc, nsCall, nsStartedAt, nsResult, nsTimedOut,
            isNetworkAvailable>>

\* One call of a function that keeps no state (articleDiversity.ts,
\* PopularityRankingService, isSimilarTitle).
VARIABLES
    fnIn,     \* the arguments
    fnOut,    \* the value returned
    fnDone,   \* the call has returned
    fanOut    \* CategoryService.getSoftwareArticles: the call in progress

fnVars == <<fnIn, fnOut, fnDone, fanOut>>

VARIABLES
    timers,      \* startPreloading: per position of PRELOAD_CATEGORIES, its timer
    spReturned,  \* startPreloading has returned
    spClock,     \* time since the call of startPreloading, in units of 2000 ms
    spLog        \* the preloadCategory calls the timers made, in order, with
                 \* the time of each

spVars == <<timers, spReturned, spClock, spLog>>

vars == <<now, ehVars, rlVars, plVars, nsVars, fnVars, spVars>>

(***************************************************************************)
(* ErrorHandler: pure parts.                                               *)
(***************************************************************************)

\* checkRateLimit, lines 480-486: the window record the call works on.  A
\* record found in the map is the map's own object, so the reset of lines
\* 483-486 changes the map even when the call goes on to deny.
RateLimitData(rl, s, windowMs, t) ==
    LET d == IF rl[s].present THEN rl[s] ELSE Limit(0, t + windowMs)
    IN  IF t > d.resetTime THEN Limit(0, t + windowMs) ELSE d

\* The test of line 488 with > in place of >=: one request too many passes.
RateLimitOkOffByOne(rl, s, maxRequests, windowMs, t) ==
    ~(RateLimitData(rl, s, windowMs, t).count > maxRequests)

\* checkRateLimit, lines 488-494: the returned boolean.
RateLimitOk(rl, s, maxRequests, windowMs, t) ==
    ~(RateLimitData(rl, s, windowMs, t).count >= maxRequests)

\* One counter for all services: an allowed call stores its record under
\* every key.
RateLimitAfterShared(rl, s, maxRequests, windowMs, t) ==
    LET d == RateLimitData(rl, s, windowMs, t)
    IN  IF RateLimitOk(rl, s, maxRequests, windowMs, t)
        THEN [k \in DOMAIN rl |-> Limit(d.count + 1, d.resetTime)]
        ELSE IF rl[s].present THEN [rl EXCEPT ![s] = d] ELSE rl

\* checkRateLimit, lines 475-495: the map after the call.
RateLimitAfter(rl, s, maxRequests, windowMs, t) ==
    LET d == RateLimitData(rl, s, windowMs, t)
    IN  IF RateLimitOk(rl, s, maxRequests, windowMs, t)
        THEN [rl EXCEPT ![s] = Limit(d.count + 1, d.resetTime)]
        ELSE IF rl[s].present THEN [rl EXCEPT ![s] = d] ELSE rl

\* The freshness test with the boundary included: an entry whose age equals
\* its ttl still counts as fresh.
IsFreshInclusive(e, t) == e.present /\ (t - e.timestamp) <= e.ttl

\* getCachedData, line 513: the freshness test.
IsFresh(e, t) == e.present /\ (t - e.timestamp) < e.ttl

\* getCachedData, lines 511-523: the returned entry (null is NoEntry).
GetCachedData(ch, k, t) == IF IsFresh(ch[k], t) THEN ch[k] ELSE NoEntry

\* getCachedData, lines 517-520: an expired entry is deleted by the read.
CacheAfterGet(ch, k, t) ==
    IF ch[k].present /\ ~IsFresh(ch[k], t) THEN [ch EXCEPT ![k] = NoEntry] ELSE ch

\* setCachedData, lines 501-505, with the default ttl of line 500.
CacheAfterSet(ch, k, d, t) == [ch EXCEPT ![k] = Entry(d, t, CACHE_TTL)]

\* setCachedData, line 508, and persistToStorage, line 549: the setItem issued.
PersistOp(k, d, t) == [op |-> "setItem", key |-> k, entry |-> Entry(d, t, CACHE_TTL)]

\* logError, lines 558-572.
\* The trim of line 570 with pop() in place of shift(): a full log drops the
\* record just pushed.
LogErrorDropsNewest(lg, s, t, rc) ==
    LET l == Append(lg, [service |-> s, timestamp |-> t, retryCount |-> rc])
    IN  IF Len(l) > MAX_ERROR_LOG THEN SubSeq(l, 1, MAX_ERROR_LOG) ELSE l

LogError(lg, s, t, rc) ==
    LET l == Append(lg, [service |-> s, timestamp |-> t, retryCount |-> rc])
    IN  IF Len(l) > MAX_ERROR_LOG THEN Tail(l) ELSE l

\* getMockDataFallback, lines 402-427: ServiceName matches /category|Category/
\* and includes 'India'; MockDataService.getMockArticles(INDIA, 15) returns its
\* 10 India articles (part_005, lines 300 and 314).
MockData == [kind |-> "mock",
             source |-> "Mock Data Service (Demo Mode) (Network Unavailable)",
             count |-> 10]

\* getEmptyFallbackData, lines 361-397: two sample articles.
SampleData == [kind |-> "sample",
               source |-> "CategoryIndia (Offline - Sample Data)",
               count |-> 2]

TierIds == 0..MaxFallbacks
FreshTierLog == [i \in TierIds |-> "untried"]

(***************************************************************************)
(* ErrorHandler: initial state.  The instance is new; AsyncStorage is empty *)
(* or holds what an earlier run of the app persisted just before.          *)
(***************************************************************************)
EmptyStore == [k \in Keys |-> NoEntry]
EarlierStore == [k \in Keys |-> Entry(ProviderData(0, 1), 0, CACHE_TTL)]

EHInit(stores) ==
    /\ now = 0
    /\ cache = [k \in Keys |-> NoEntry]
    /\ storage \in stores
    /\ pending = <<>>
    /\ rateLimits = [s \in Services |-> NoLimit]
    /\ errorLog = <<>>
    /\ pc = [c \in Calls |-> "idle"]
    /\ nfb = [c \in Calls |-> 0]
    /\ tier = [c \in Calls |-> 0]
    /\ retryCount = [c \in Calls |-> 0]
    /\ cachedData = [c \in Calls |-> NoEntry]
    /\ allowed = [c \in Calls |-> FALSE]
    /\ result = [c \in Calls |-> NoData]
    /\ outcome = [c \in Calls |-> "none"]
    /\ origin = [c \in Calls |-> "none"]
    /\ tierLog = [c \in Calls |-> FreshTierLog]
    /\ probes = [c \in Calls |-> <<>>]
    /\ durable = [c \in Calls |-> "unread"]
    /\ seen = [c \in Calls |-> NoEntry]
    /\ startedAt = [c \in Calls |-> 0]
    /\ unhandled = FALSE

(***************************************************************************)
(* ErrorHandler: executeWithFallback, one action per stretch of code       *)
(* between awaits.                                                         *)
(***************************************************************************)

\* The call returns d to its caller.
Finish(c, d, how) ==
    /\ pc' = [pc EXCEPT ![c] = "done"]
    /\ result' = [result EXCEPT ![c] = d]
    /\ outcome' = [outcome EXCEPT ![c] = "returned"]
    /\ origin' = [origin EXCEPT ![c] = how]

\* The last tier hands back an empty provider-shaped response instead of
\* placeholder articles.
PlaceholderEmpty(c, mockOk) == Finish(c, ProviderData(0, 0), "sample")

\* Lines 346-354: mock data, or the sample data when getMockDataFallback
\* caught an error and returned null (lines 435-438).
Placeholder(c, mockOk) ==
    IF mockOk THEN Finish(c, MockData, "mock") ELSE Finish(c, SampleData, "sample")

\* The exhaustion path without the look at the map of lines 333-337: after
\* the snapshot it goes straight to AsyncStorage.
ExhaustedSkipsMemory(c, ch) ==
    /\ cache' = ch
    /\ UNCHANGED <<rateLimits, allowed, tier>>
    /\ IF cachedData[c].present
       THEN /\ Finish(c, cachedData[c].data, "fresh")
            /\ probes' = [probes EXCEPT ![c] = <<"fresh">>]
       ELSE /\ pc' = [pc EXCEPT ![c] = "getItem"]
            /\ probes' = [probes EXCEPT ![c] = <<"fresh", "durable">>]
            /\ UNCHANGED <<result, outcome, origin>>

\* Lines 323-340, entered when the fallback loop is over: the const cachedData
\* of line 287, then whatever the map holds, then AsyncStorage.getItem.
\* ch is the in-memory cache as the step has left it so far.
Exhausted(c, ch) ==
    /\ cache' = ch
    /\ UNCHANGED <<rateLimits, allowed, tier>>
    /\ IF cachedData[c].present
       THEN /\ Finish(c, cachedData[c].data, "fresh")
            /\ probes' = [probes EXCEPT ![c] = <<"fresh">>]
       ELSE IF ch[CacheKey].present
       THEN /\ Finish(c, ch[CacheKey].data, "expired")
            /\ probes' = [probes EXCEPT ![c] = <<"fresh", "memory">>]
       ELSE /\ pc' = [pc EXCEPT ![c] = "getItem"]
            /\ probes' = [probes EXCEPT ![c] = <<"fresh", "memory", "durable">>]
            /\ UNCHANGED <<result, outcome, origin>>

\* Lines 306-311: the loop moves to the next fallback and calls its
\* checkRateLimit, or the loop is over.
NextTier(c, ch) ==
    IF tier[c] < nfb[c]
    THEN /\ tier' = [tier EXCEPT ![c] = tier[c] + 1]
         /\ allowed' = [allowed EXCEPT ![c] =
                RateLimitOk(rateLimits, TierName(tier[c] + 1),
                            DEFAULT_MAX_REQUESTS, DEFAULT_WINDOW_MS, now)]
         /\ rateLimits' = RateLimitAfter(rateLimits, TierName(tier[c] + 1),
                            DEFAULT_MAX_REQUESTS, DEFAULT_WINDOW_MS, now)
         /\ pc' = [pc EXCEPT ![c] = "rateLimit"]
         /\ cache' = ch
         /\ UNCHANGED <<result, outcome, origin, probes>>
    ELSE Exhausted(c, ch)

\* Lines 286-292: executeWithFallback is called with n fallbacks; it reads the
\* cache and calls checkRateLimit for the primary.
StartCall(c, n) ==
    /\ pc[c] = "idle"
    /\ nfb' = [nfb EXCEPT ![c] = n]
    /\ cachedData' = [cachedData EXCEPT ![c] = GetCachedData(cache, CacheKey, now)]
    /\ cache' = CacheAfterGet(cache, CacheKey, now)
    /\ allowed' = [allowed EXCEPT ![c] =
           RateLimitOk(rateLimits, TierName(0),
                       DEFAULT_MAX_REQUESTS, DEFAULT_WINDOW_MS, now)]
    /\ rateLimits' = RateLimitAfter(rateLimits, TierName(0),
                       DEFAULT_MAX_REQUESTS, DEFAULT_WINDOW_MS, now)
    /\ pc' = [pc EXCEPT ![c] = "rateLimit"]
    /\ tier' = [tier EXCEPT ![c] = 0]
    /\ retryCount' = [retryCount EXCEPT ![c] = 0]
    /\ tierLog' = [tierLog EXCEPT ![c] = FreshTierLog]
    /\ probes' = [probes EXCEPT ![c] = <<>>]
    /\ seen' = [seen EXCEPT ![c] = cache[CacheKey]]
    /\ startedAt' = [startedAt EXCEPT ![c] = now]
    /\ UNCHANGED <<now, storage, pending, errorLog, result, outcome, origin, durable>>
    /\ UNCHANGED <<unhandled, rlVars, plVars, fnVars, spVars>>

\* The same, called by a caller other than NetworkService.
Start(c, n) == StartCall(c, n) /\ UNCHANGED nsVars

\* executeWithRetry, lines 450-457, entered with retry count rc: a fresh
\* cache entry is returned, otherwise the operation is invoked.
EnterRetry(c, rc) ==
    /\ retryCount' = [retryCount EXCEPT ![c] = rc]
    /\ cache' = CacheAfterGet(cache, CacheKey, now)
    /\ IF GetCachedData(cache, CacheKey, now).present
       THEN /\ result' = [result EXCEPT ![c] = GetCachedData(cache, CacheKey, now).data]
            /\ origin' = [origin EXCEPT ![c] = "retryCache"]
            /\ pc' = [pc EXCEPT ![c] = "retried"]
            /\ tierLog' = [tierLog EXCEPT ![c][tier[c]] = "hit"]
       ELSE /\ pc' = [pc EXCEPT ![c] = "op"]
            /\ tierLog' = [tierLog EXCEPT ![c][tier[c]] = "invoked"]
            /\ UNCHANGED <<result, origin>>
    /\ UNCHANGED <<rateLimits, allowed, tier, outcome, probes>>

\* Lines 292-293 and 311-312: checkRateLimit's promise has resolved.  Allowed:
\* executeWithRetry starts.  Denied: nothing is logged, the next tier is tried
\* (lines 296-298 and 315).
\* A denial handled as a failed call: the denied tier gets a failure record.
AfterRateLimitLogsDenial(c) ==
    /\ pc[c] = "rateLimit"
    /\ IF allowed[c]
       THEN /\ EnterRetry(c, 0)
            /\ UNCHANGED errorLog
       ELSE /\ tierLog' = [tierLog EXCEPT ![c][tier[c]] = "denied"]
            /\ errorLog' = LogError(errorLog, TierName(tier[c]), now, 0)
            /\ NextTier(c, cache)
            /\ UNCHANGED retryCount
    /\ UNCHANGED <<now, storage, pending, nfb, cachedData,
                   seen, startedAt, durable>>
    /\ UNCHANGED <<unhandled, rlVars, plVars, nsVars, fnVars, spVars>>

AfterRateLimit(c) ==
    /\ pc[c] = "rateLimit"
    /\ IF allowed[c]
       THEN EnterRetry(c, 0)
       ELSE /\ tierLog' = [tierLog EXCEPT ![c][tier[c]] = "denied"]
            /\ NextTier(c, cache)
            /\ UNCHANGED retryCount
    /\ UNCHANGED <<now, storage, pending, errorLog, nfb, cachedData,
                   seen, startedAt, durable>>
    /\ UNCHANGED <<unhandled, rlVars, plVars, nsVars, fnVars, spVars>>

\* Lines 457-459: the operation resolves with n articles; executeWithRetry
\* caches the result and returns it.
OpSucceeds(c, n) ==
    /\ pc[c] = "op"
    /\ Len(pending) < MaxPending
    /\ result' = [result EXCEPT ![c] = ProviderData(tier[c], n)]
    /\ origin' = [origin EXCEPT ![c] = "op"]
    /\ cache' = CacheAfterSet(cache, CacheKey, ProviderData(tier[c], n), now)
    /\ pending' = Append(pending, PersistOp(CacheKey, ProviderData(tier[c], n), now))
    /\ pc' = [pc EXCEPT ![c] = "retried"]
    /\ tierLog' = [tierLog EXCEPT ![c][tier[c]] = "ok"]
    /\ UNCHANGED <<now, storage, rateLimits, errorLog, nfb, tier, retryCount,
                   cachedData, allowed, outcome, probes,
                   seen, startedAt, durable>>
    /\ UNCHANGED <<unhandled, rlVars, plVars, nsVars, fnVars, spVars>>

\* executeWithRetry testing retryCount <= MAX_RETRIES in line 461: one retry
\* more.
OpFailsRetriesOnceMore(c) ==
    /\ pc[c] = "op"
    /\ IF retryCount[c] <= MAX_RETRIES
       THEN /\ pc' = [pc EXCEPT ![c] = "sleep"]
            /\ UNCHANGED <<cache, rateLimits, errorLog, tier, allowed, result,
                           outcome, origin, tierLog, probes>>
       ELSE /\ errorLog' = LogError(errorLog, TierName(tier[c]), now, 0)
            /\ tierLog' = [tierLog EXCEPT ![c][tier[c]] = "failed"]
            /\ NextTier(c, cache)
    /\ UNCHANGED <<now, storage, pending, nfb, retryCount, cachedData,
                   seen, startedAt, durable>>
    /\ UNCHANGED <<unhandled, rlVars, plVars, nsVars, fnVars, spVars>>

\* Lines 460-469, then 299-303 or 316-320: the operation rejects.  With
\* retries left executeWithRetry sleeps; otherwise it rethrows, the catch of
\* executeWithFallback logs the error with retry count 0 and the next tier
\* is tried.
OpFails(c) ==
    /\ pc[c] = "op"
    /\ IF retryCount[c] < MAX_RETRIES
       THEN /\ pc' = [pc EXCEPT ![c] = "sleep"]
            /\ UNCHANGED <<cache, rateLimits, errorLog, tier, allowed, result,
                           outcome, origin, tierLog, probes>>
       ELSE /\ errorLog' = LogError(errorLog, TierName(tier[c]), now, 0)
            /\ tierLog' = [tierLog EXCEPT ![c][tier[c]] = "failed"]
            /\ NextTier(c, cache)
    /\ UNCHANGED <<now, storage, pending, nfb, retryCount, cachedData,
                   seen, startedAt, durable>>
    /\ UNCHANGED <<unhandled, rlVars, plVars, nsVars, fnVars, spVars>>

\* Lines 465-466: the sleep is over, executeWithRetry calls itself.
SleepDone(c) ==
    /\ pc[c] = "sleep"
    /\ EnterRetry(c, retryCount[c] + 1)
    /\ UNCHANGED <<now, storage, pending, errorLog, nfb, cachedData,
                   seen, startedAt, durable>>
    /\ UNCHANGED <<unhandled, rlVars, plVars, nsVars, fnVars, spVars>>

\* executeWithFallback returning the result without the setCachedData of
\* lines 294 and 313.
RetryReturnsNoCache(c) ==
    /\ pc[c] = "retried"
    /\ Finish(c, result[c], origin[c])
    /\ UNCHANGED <<now, cache, storage, pending, rateLimits, errorLog, nfb, tier,
                   retryCount, cachedData, allowed, tierLog, probes,
                   seen, startedAt, durable>>
    /\ UNCHANGED <<unhandled, rlVars, plVars, nsVars, fnVars, spVars>>

\* executeWithFallback without the return of lines 295 and 314: after a
\* tier's success the loop goes on to the next tier.
RetryReturnsAndContinues(c) ==
    /\ pc[c] = "retried"
    /\ NextTier(c, cache)
    /\ UNCHANGED <<now, storage, pending, errorLog, nfb, retryCount, cachedData,
                   tierLog, seen, startedAt, durable>>
    /\ UNCHANGED <<unhandled, rlVars, plVars, nsVars, fnVars, spVars>>

\* Lines 293-295 and 312-314: executeWithRetry's promise has resolved;
\* executeWithFallback caches the result again and returns it.
RetryReturns(c) ==
    /\ pc[c] = "retried"
    /\ Len(pending) < MaxPending
    /\ cache' = CacheAfterSet(cache, CacheKey, result[c], now)
    /\ pending' = Append(pending, PersistOp(CacheKey, result[c], now))
    /\ Finish(c, result[c], origin[c])
    /\ UNCHANGED <<now, storage, rateLimits, errorLog, nfb, tier, retryCount,
                   cachedData, allowed, tierLog, probes,
                   seen, startedAt, durable>>
    /\ UNCHANGED <<unhandled, rlVars, plVars, nsVars, fnVars, spVars>>

\* loadCachedDataFromStorage, lines 530-535, then 341-344: getItem returned a
\* stored entry that is still fresh; it is installed in memory and returned.
\* Line 533 without its freshness test: whatever getItem returned is
\* installed and returned.
LoadFreshAnyAge(c) ==
    /\ pc[c] = "getItem"
    /\ storage[CacheKey].present
    /\ cache' = [cache EXCEPT ![CacheKey] = storage[CacheKey]]
    /\ Finish(c, storage[CacheKey].data, "durable")
    /\ durable' = [durable EXCEPT ![c] = "fresh"]
    /\ UNCHANGED <<now, storage, pending, rateLimits, errorLog, nfb, tier,
                   retryCount, cachedData, allowed, tierLog, probes,
                   seen, startedAt>>
    /\ UNCHANGED <<unhandled, rlVars, plVars, nsVars, fnVars, spVars>>

LoadFresh(c) ==
    /\ pc[c] = "getItem"
    /\ IsFresh(storage[CacheKey], now)
    /\ cache' = [cache EXCEPT ![CacheKey] = storage[CacheKey]]
    /\ Finish(c, storage[CacheKey].data, "durable")
    /\ durable' = [durable EXCEPT ![c] = "fresh"]
    /\ UNCHANGED <<now, storage, pending, rateLimits, errorLog, nfb, tier,
                   retryCount, cachedData, allowed, tierLog, probes,
                   seen, startedAt>>
    /\ UNCHANGED <<unhandled, rlVars, plVars, nsVars, fnVars, spVars>>

\* loadCachedDataFromStorage, lines 536-539: the stored entry has expired;
\* removeItem is awaited.
LoadExpired(c) ==
    /\ pc[c] = "getItem"
    /\ storage[CacheKey].present
    /\ ~IsFresh(storage[CacheKey], now)
    /\ pc' = [pc EXCEPT ![c] = "removeItem"]
    /\ durable' = [durable EXCEPT ![c] = "expired"]
    /\ UNCHANGED <<now, cache, storage, pending, rateLimits, errorLog, nfb, tier,
                   retryCount, cachedData, allowed, result, outcome, origin,
                   tierLog, probes,
                   seen, startedAt>>
    /\ UNCHANGED <<unhandled, rlVars, plVars, nsVars, fnVars, spVars>>

\* loadCachedDataFromStorage, lines 531 and 544, then 346-354: getItem
\* returned null; the placeholder is returned.
LoadMissing(c, mockOk) ==
    /\ pc[c] = "getItem"
    /\ ~storage[CacheKey].present
    /\ Placeholder(c, mockOk)
    /\ probes' = [probes EXCEPT ![c] = Append(probes[c], "placeholder")]
    /\ durable' = [durable EXCEPT ![c] = "missing"]
    /\ UNCHANGED <<now, cache, storage, pending, rateLimits, errorLog, nfb, tier,
                   retryCount, cachedData, allowed, tierLog,
                   seen, startedAt>>
    /\ UNCHANGED <<unhandled, rlVars, plVars, nsVars, fnVars, spVars>>

\* loadCachedDataFromStorage without its try/catch: the rejection of getItem
\* leaves executeWithFallback as an exception.
LoadFailsUncaught(c, mockOk) ==
    /\ pc[c] = "getItem"
    /\ pc' = [pc EXCEPT ![c] = "done"]
    /\ outcome' = [outcome EXCEPT ![c] = "thrown"]
    /\ durable' = [durable EXCEPT ![c] = "failed"]
    /\ UNCHANGED <<now, cache, storage, pending, rateLimits, errorLog, nfb, tier,
                   retryCount, cachedData, allowed, result, origin, tierLog,
                   probes, seen, startedAt>>
    /\ UNCHANGED <<unhandled, rlVars, plVars, nsVars, fnVars, spVars>>

\* loadCachedDataFromStorage, lines 541-544, then 346-354: getItem (or
\* JSON.parse) threw; the catch returns null and the placeholder is returned.
LoadFails(c, mockOk) ==
    /\ pc[c] = "getItem"
    /\ Placeholder(c, mockOk)
    /\ probes' = [probes EXCEPT ![c] = Append(probes[c], "placeholder")]
    /\ durable' = [durable EXCEPT ![c] = "failed"]
    /\ UNCHANGED <<now, cache, storage, pending, rateLimits, errorLog, nfb, tier,
                   retryCount, cachedData, allowed, tierLog,
                   seen, startedAt>>
    /\ UNCHANGED <<unhandled, rlVars, plVars, nsVars, fnVars, spVars>>

\* loadCachedDataFromStorage, lines 538-544, then 346-354: removeItem
\* completed (ok) or threw into the catch; either way null is returned.
RemoveDone(c, ok, mockOk) ==
    /\ pc[c] = "removeItem"
    /\ storage' = IF ok THEN [storage EXCEPT ![CacheKey] = NoEntry] ELSE storage
    /\ Placeholder(c, mockOk)
    /\ probes' = [probes EXCEPT ![c] = Append(probes[c], "placeholder")]
    /\ UNCHANGED <<now, cache, pending, rateLimits, errorLog, nfb, tier,
                   retryCount, cachedData, allowed, tierLog,
                   seen, startedAt, durable>>
    /\ UNCHANGED <<unhandled, rlVars, plVars, nsVars, fnVars, spVars>>

\* The caller has taken the call's result; the slot is free for a new call.
Return(c) ==
    /\ pc[c] = "done"
    /\ pc' = [pc EXCEPT ![c] = "idle"]
    /\ nfb' = [nfb EXCEPT ![c] = 0]
    /\ tier' = [tier EXCEPT ![c] = 0]
    /\ retryCount' = [retryCount EXCEPT ![c] = 0]
    /\ cachedData' = [cachedData EXCEPT ![c] = NoEntry]
    /\ allowed' = [allowed EXCEPT ![c] = FALSE]
    /\ result' = [result EXCEPT ![c] = NoData]
    /\ outcome' = [outcome EXCEPT ![c] = "none"]
    /\ origin' = [origin EXCEPT ![c] = "none"]
    /\ tierLog' = [tierLog EXCEPT ![c] = FreshTierLog]
    /\ probes' = [probes EXCEPT ![c] = <<>>]
    /\ seen' = [seen EXCEPT ![c] = NoEntry]
    /\ startedAt' = [startedAt EXCEPT ![c] = 0]
    /\ durable' = [durable EXCEPT ![c] = "unread"]
    /\ UNCHANGED <<now, cache, storage, pending, rateLimits, errorLog>>
    /\ UNCHANGED <<unhandled, rlVars, plVars, nsVars, fnVars, spVars>>

\* clearCache, lines 615-622: the map is cleared and getAllKeys is issued.
ClearCache ==
    /\ Len(pending) < MaxPending
    /\ cache' = [k \in Keys |-> NoEntry]
    /\ pending' = Append(pending, [op |-> "getAllKeys"])
    /\ UNCHANGED <<now, storage, rateLimits, errorLog, pc, nfb, tier, retryCount,
                   cachedData, allowed, result, outcome, origin, tierLog, probes,
                   seen, startedAt, durable>>
    /\ UNCHANGED <<unhandled, rlVars, plVars, nsVars, fnVars, spVars>>

\* AsyncStorage completes its oldest operation.  setItem (line 549) stores the
\* entry, or fails into the catch of lines 550-552.  getAllKeys resolves into
\* the callback of lines 618-621, which issues multiRemove for the keys held,
\* or rejects.  multiRemove (line 620) removes those keys, or rejects.  The
\* chain of line 618 has no catch and the promise of line 620 is dropped: a
\* rejection of either has no handler.
\* A failed setItem undoes the in-memory write of the same key.
StorageOpDoneRollsBack(ok) ==
    /\ pending # <<>>
    /\ LET o == Head(pending) IN
       /\ storage' =
            IF ~ok THEN storage
            ELSE IF o.op = "setItem" THEN [storage EXCEPT ![o.key] = o.entry]
            ELSE IF o.op = "multiRemove"
                 THEN [k \in Keys |-> IF k \in o.keys THEN NoEntry ELSE storage[k]]
            ELSE storage
       /\ cache' =
            IF ~ok /\ o.op = "setItem" THEN [cache EXCEPT ![o.key] = NoEntry]
            ELSE cache
       /\ unhandled' = (unhandled \/ (~ok /\ o.op \in {"getAllKeys", "multiRemove"}))
       /\ pending' =
            IF ok /\ o.op = "getAllKeys"
            THEN Append(Tail(pending),
                        [op |-> "multiRemove",
                         keys |-> {k \in Keys : storage[k].present}])
            ELSE Tail(pending)
    /\ UNCHANGED <<now, rateLimits, errorLog, pc, nfb, tier, retryCount,
                   cachedData, allowed, result, outcome, origin, tierLog, probes,
                   seen, startedAt, durable>>
    /\ UNCHANGED <<rlVars, plVars, nsVars, fnVars, spVars>>

StorageOpDone(ok) ==
    /\ pending # <<>>
    /\ LET o == Head(pending) IN
       /\ storage' =
            IF ~ok THEN storage
            ELSE IF o.op = "setItem" THEN [storage EXCEPT ![o.key] = o.entry]
            ELSE IF o.op = "multiRemove"
                 THEN [k \in Keys |-> IF k \in o.keys THEN NoEntry ELSE storage[k]]
            ELSE storage
       /\ unhandled' = (unhandled \/ (~ok /\ o.op \in {"getAllKeys", "multiRemove"}))
       /\ pending' =
            IF ok /\ o.op = "getAllKeys"
            THEN Append(Tail(pending),
                        [op |-> "multiRemove",
                         keys |-> {k \in Keys : storage[k].present}])
            ELSE Tail(pending)
    /\ UNCHANGED <<now, cache, rateLimits, errorLog, pc, nfb, tier, retryCount,
                   cachedData, allowed, result, outcome, origin, tierLog, probes,
                   seen, startedAt, durable>>
    /\ UNCHANGED <<rlVars, plVars, nsVars, fnVars, spVars>>

\* Date.now() advances, up to limit.
Advance(limit) ==
    /\ now < limit
    /\ now' = now + 1
    /\ UNCHANGED <<cache, storage, pending, rateLimits, errorLog, pc, nfb, tier,
                   retryCount, cachedData, allowed, result, outcome, origin,
                   tierLog, probes,
                   seen, startedAt, durable>>
    /\ UNCHANGED <<unhandled, rlVars, plVars, nsVars, fnVars, spVars>>

(***************************************************************************)
(* ErrorHandler.checkRateLimit called directly, with parameters that stay   *)
(* the same from call to call.                                             *)
(***************************************************************************)
\* Calls made in one window beyond maxRequests.
MaxDenied == 2

\* Date.now() ranges far enough for a default window to elapse.
RateLimitHorizon == DEFAULT_WINDOW_MS + MaxTime

\* The defaults of lines 477-478, and the parameters a caller may pass.
DefaultParams == [maxRequests |-> DEFAULT_MAX_REQUESTS, windowMs |-> DEFAULT_WINDOW_MS]
RateLimitParams == [maxRequests : 0..DEFAULT_MAX_REQUESTS, windowMs : {1, DEFAULT_WINDOW_MS}]

\* The two service names the direct calls use.
RateLimitKeys == {TierName(0), TierName(1)}

\* The calls of one service seen from outside: the window the last call fell
\* in (it ends when Date.now() exceeds until), the number of calls in it, and
\* whether an earlier window had more calls than maxRequests.
NoWindow == [open |-> FALSE]
Window(n, u, d) == [open |-> TRUE, calls |-> n, until |-> u, deniedBefore |-> d]

\* Lines 480-486 seen from outside: a call at t belongs to the open window
\* unless t is past its end; then it is the first of a new one.
WindowAfter(w, maxRequests, windowMs, t) ==
    IF ~w.open THEN Window(1, t + windowMs, FALSE)
    ELSE IF t > w.until
         THEN Window(1, t + windowMs, w.deniedBefore \/ w.calls > maxRequests)
         ELSE Window(w.calls + 1, w.until, w.deniedBefore)

RLInit(params) ==
    /\ rlParams \in params
    /\ rlCalls = [s \in Services |-> NoWindow]
    /\ rlLast = [s \in Services |-> "none"]
    /\ rlGranted = [s \in Services |-> 0]

\* checkRateLimit(service, maxRequests, windowMs), lines 475-495, with the
\* parameters of this one call. The body has no await: it runs to its return
\* without another call in between.
CheckRateLimitWith(s, p) ==
    LET w  == WindowAfter(rlCalls[s], p.maxRequests, p.windowMs, now)
        ok == RateLimitOk(rateLimits, s, p.maxRequests, p.windowMs, now)
    IN  /\ w.calls <= DEFAULT_MAX_REQUESTS + MaxDenied
        /\ rateLimits' = RateLimitAfter(rateLimits, s, p.maxRequests, p.windowMs, now)
        /\ rlLast' = [rlLast EXCEPT ![s] = IF ok THEN "true" ELSE "false"]
        /\ rlCalls' = [rlCalls EXCEPT ![s] = w]
        /\ rlGranted' = [rlGranted EXCEPT ![s] =
               (IF w.calls = 1 THEN 0 ELSE @) + (IF ok THEN 1 ELSE 0)]
        /\ UNCHANGED <<now, cache, storage, pending, errorLog, pc, nfb, tier,
                       retryCount, cachedData, allowed, result, outcome, origin,
                       tierLog, probes, durable, seen, startedAt>>
        /\ UNCHANGED <<unhandled, rlParams, plVars, nsVars, fnVars, spVars>>

\* The same call by a caller that passes the same parameters every time.
CheckRateLimit(s) ==
    /\ WindowAfter(rlCalls[s], rlParams.maxRequests, rlParams.windowMs, now).calls
           <= rlParams.maxRequests + MaxDenied
    /\ CheckRateLimitWith(s, rlParams)

(***************************************************************************)
(* PreloadingService.  The repository holds two sources of the class: the  *)
(* one of preloadingService.ts (lines 9-238) builds its two services in    *)
(* field initialisers ("eager"); the one of popularityRankingService.ts    *)
(* (lines 212-526) leaves both fields null until preloadCategory calls the *)
(* getters of lines 246-268 ("lazy"), and removes duplicates before it     *)
(* ranks.  Line numbers below are v1 / v2 in that order.                   *)
(***************************************************************************)
\* PreloadingService.CACHE_TTL (line 34 / line 237): 15 minutes, one tick.
PRELOADING_CACHE_TTL == 1

Variants == {"eager", "lazy"}
\* Category.ALL and Category.INDIA, the head of PRELOAD_CATEGORIES.
Categories == {"all", "india"}
\* The getArticles and preloadCategory calls that may be in progress together.
Tasks == {"t1", "t2"}

\* The articles.  words is what isSimilarTitle's normalize leaves of the
\* title; the scores are what the calculate* functions of
\* PopularityRankingService (lines 60-123) yield, in hundredths.  Article 2
\* has a title similar to that of article 1, article 6 carries the title of
\* article 4, article 7 stands for the articles of MockDataService, article 8
\* has the scores of article 5.
Articles == 1..8
ArticleOf(a) ==
    CASE a = 1 -> [words |-> {"india", "wins", "series"}, category |-> "india",
                   recency |-> 60, engagement |-> 50, credibility |-> 50,
                   trending |-> 0]
      [] a = 2 -> [words |-> {"india", "wins", "series", "final"},
                   category |-> "india",
                   recency |-> 100, engagement |-> 50, credibility |-> 50,
                   trending |-> 0]
      [] a = 3 -> [words |-> {"market", "rally"}, category |-> "business",
                   recency |-> 100, engagement |-> 70, credibility |-> 95,
                   trending |-> 0]
      [] a = 4 -> [words |-> {"monsoon", "arrives", "kerala"},
                   category |-> "india",
                   recency |-> 80, engagement |-> 50, credibility |-> 85,
                   trending |-> 0]
      [] a = 5 -> [words |-> {"budget", "session", "opens"},
                   category |-> "political",
                   recency |-> 40, engagement |-> 50, credibility |-> 50,
                   trending |-> 0]
      [] a = 6 -> [words |-> {"monsoon", "arrives", "kerala"},
                   category |-> "india",
                   recency |-> 100, engagement |-> 60, credibility |-> 50,
                   trending |-> 0]
      [] a = 8 -> [words |-> {"cabinet", "reshuffle", "today"},
                   category |-> "political",
                   recency |-> 40, engagement |-> 50, credibility |-> 50,
                   trending |-> 0]
      [] OTHER -> [words |-> {"demo", "headline"}, category |-> "india",
                   recency |-> 20, engagement |-> 50, credibility |-> 50,
                   trending |-> 0]

\* What NetworkService.getArticles may resolve with: response.data.  It never
\* rejects (networkService.ts, lines 27-101 and 355-410).
NetResponse(l, src) == [data |-> l, source |-> src]
Feeds == {NetResponse(<<>>, "Error - No articles available"),
          NetResponse(<<1, 3>>, "Indian News"),
          NetResponse(<<1, 2, 3>>, "Indian News")}

\* calculateCategoryRelevanceScore, lines 125-145, in hundredths.
CategoryRelevanceScore(a, targetCategory) ==
    IF ArticleOf(a).category = targetCategory THEN 100
    ELSE IF targetCategory = "india"
            /\ ArticleOf(a).category \in {"political", "business", "sports"}
         THEN 60
    ELSE IF targetCategory = "all" THEN 80
    ELSE 10

\* enhanceArticleWithPopularity, lines 147-174: overallScore, in 1/10000.
OverallScore(a, targetCategory) ==
    ArticleOf(a).recency * 25 + ArticleOf(a).engagement * 20
    + ArticleOf(a).credibility * 15 + ArticleOf(a).trending * 25
    + CategoryRelevanceScore(a, targetCategory) * 15

RecencyScoreEarlyStep(hoursAgo) ==
    IF hoursAgo <= 1 THEN 100
    ELSE IF hoursAgo <= 12 THEN 80
    ELSE IF hoursAgo <= 24 THEN 60
    ELSE IF hoursAgo <= 72 THEN 40
    ELSE IF hoursAgo <= 168 THEN 20
    ELSE 10

\* calculateRecencyScore, lines 60-72, in hundredths, of an article published
\* hoursAgo hours before the call.
RecencyScore(hoursAgo) ==
    IF hoursAgo <= 2 THEN 100
    ELSE IF hoursAgo <= 12 THEN 80
    ELSE IF hoursAgo <= 24 THEN 60
    ELSE IF hoursAgo <= 72 THEN 40
    ELSE IF hoursAgo <= 168 THEN 20
    ELSE 10

\* enhanceArticleWithPopularity, lines 147-174, of article a had it been
\* published hoursAgo hours before the call: overallScore, in 1/10000.
OverallScoreAt(a, targetCategory, hoursAgo) ==
    RecencyScore(hoursAgo) * 25 + ArticleOf(a).engagement * 20
    + ArticleOf(a).credibility * 15 + ArticleOf(a).trending * 25
    + CategoryRelevanceScore(a, targetCategory) * 15

RECURSIVE InsertByScoreBeforeTies(_, _, _)
InsertByScoreBeforeTies(a, l, category) ==
    IF l = <<>> THEN <<a>>
    ELSE IF OverallScore(Head(l), category) > OverallScore(a, category)
         THEN <<Head(l)>> \o InsertByScoreBeforeTies(a, Tail(l), category)
         ELSE <<a>> \o l

\* Array.prototype.sort with the comparator of line 182 is stable: a is put
\* behind every article whose score is not below its own.
RECURSIVE InsertByScore(_, _, _)
InsertByScore(a, l, category) ==
    IF l = <<>> THEN <<a>>
    ELSE IF OverallScore(Head(l), category) >= OverallScore(a, category)
         THEN <<Head(l)>> \o InsertByScore(a, Tail(l), category)
         ELSE <<a>> \o l

\* rankArticlesByPopularity, lines 176-183.
RECURSIVE RankArticlesByPopularity(_, _)
RankArticlesByPopularity(l, category) ==
    IF l = <<>> THEN <<>>
    ELSE InsertByScore(l[Len(l)],
                       RankArticlesByPopularity(SubSeq(l, 1, Len(l) - 1), category),
                       category)

\* isSimilarTitle, popularityRankingService.ts lines 325-340: Jaccard
\* similarity of the two word sets at least 0.7.
IsSimilarTitle(a, b) ==
    LET words1 == ArticleOf(a).words
        words2 == ArticleOf(b).words
    IN  IF words1 = {} /\ words2 = {} THEN TRUE
        ELSE IF words1 = {} \/ words2 = {} THEN FALSE
        ELSE 10 * Cardinality(words1 \cap words2) >= 7 * Cardinality(words1 \cup words2)

\* removeDuplicates, popularityRankingService.ts lines 302-317: the loop over
\* the articles, kept being the values of the map seen in insertion order.
RECURSIVE RemoveDuplicatesLoop(_, _)
RemoveDuplicatesLoop(kept, rest) ==
    IF rest = <<>> THEN kept
    ELSE IF \E i \in 1..Len(kept) : IsSimilarTitle(Head(rest), kept[i])
         THEN RemoveDuplicatesLoop(kept, Tail(rest))
         ELSE RemoveDuplicatesLoop(Append(kept, Head(rest)), Tail(rest))

\* removeDuplicates, popularityRankingService.ts lines 298-320.
RemoveDuplicates(l) == RemoveDuplicatesLoop(<<>>, l)

(***************************************************************************)
(* NetworkService.getArticles (networkService.ts, lines 355-410) as a      *)
(* function of what the services of the chain and MockDataService do.      *)
(***************************************************************************)
\* The head of categoryServiceMap[Category.INDIA] (line 228).
ServiceChain == <<"indiannews", "guardian">>

\* The source each service puts on its response (indianNewsService.ts line
\* 141, guardianService.ts line 129).
ProviderLabel(serviceName) ==
    IF serviceName = "indiannews" THEN "Indian News" ELSE "The Guardian API"

\* What tryService (lines 328-350) may resolve with: null after an error or a
\* timeout of the service, or the data of its response.
Failed == [ok |-> FALSE]
Served(l) == [ok |-> TRUE, data |-> l]
ProviderOutcomes == {Failed, Served(<<>>), Served(<<1, 3>>), Served(<<1, 4, 3, 6, 5>>)}

\* getMockArticlesAsync resolves at once ("ok"), rejects in the try and
\* resolves in the catch ("once"), or rejects both times ("never").
MockOutcomes == {"ok", "once", "never"}
MockArticles == <<7>>

\* Lines 371-381: the first service of the chain, from position i on, whose
\* response has articles; <<>> if there is none.
RECURSIVE FirstSuccess(_, _)
FirstSuccess(outcomes, i) ==
    IF i > Len(outcomes) THEN <<>>
    ELSE IF outcomes[i].ok /\ Len(outcomes[i].data) > 0 THEN <<i>>
    ELSE FirstSuccess(outcomes, i + 1)

\* getArticles, lines 355-410, with isNetworkAvailable true (its initial
\* value, never set to false in this source).
NetworkGetArticles(outcomes, mock) ==
    LET hit == FirstSuccess(outcomes, 1)
    IN  IF hit # <<>>
        THEN NetResponse(RemoveDuplicates(outcomes[hit[1]].data),
                         ProviderLabel(ServiceChain[hit[1]]))
        ELSE IF mock = "ok"
        THEN NetResponse(RemoveDuplicates(MockArticles),
                         "Mock Data Service (Demo Mode)")
        ELSE IF mock = "once"
        THEN NetResponse(RemoveDuplicates(MockArticles),
                         "Mock Data Service (Demo Mode) (Error fallback)")
        ELSE NetResponse(<<>>, "Error - No articles available")

\* Every response the chain can lead to.
NetworkFeeds ==
    {NetworkGetArticles(o, m) :
        o \in [1..Len(ServiceChain) -> ProviderOutcomes], m \in MockOutcomes}

\* An entry of preloadedCache, or none.
NoPreload == [present |-> FALSE]
Preloaded(l, src, t) ==
    [present |-> TRUE, articles |-> l, source |-> src, timestamp |-> t,
     fetchedBeforeRefresh |-> FALSE]

\* A ServiceResponse of PreloadingService: the articles, the source it
\* started from and what the code appends to it: "(Cached)", "(Offline)", or
\* nothing when the network service's response is passed on ("Network").
NoResponse == [data |-> <<>>, source |-> "none", label |-> "none"]
Response(l, src, lb) == [data |-> l, source |-> src, label |-> lb]

\* A call of getArticles, preloadCategory or refreshCategory: its argument,
\* its position, its locals cached and response, what it returned, whether it
\* called the network service, and whether refreshCategory was invoked for
\* its category while its request was in flight (overtaken; a stored entry
\* remembers that of the call that stored it as fetchedBeforeRefresh).
IdleTask == [kind |-> "none", category |-> "all", pc |-> "idle",
             cached |-> NoPreload, response |-> NetResponse(<<>>, "none"),
             result |-> NoResponse, outcome |-> "none", invoked |-> FALSE,
             overtaken |-> FALSE]

PLInit(variants) ==
    /\ variant \in variants
    /\ networkService = (variant = "eager")
    /\ popularityService = (variant = "eager")
    /\ preloadedCache = [c \in Categories |-> NoPreload]
    /\ task = [t \in Tasks |-> IdleTask]

\* isCacheValid with an age one tick too high.
IsCacheValidOffByOne(timestamp, t) == (t - timestamp) + 1 < PRELOADING_CACHE_TTL

\* isCacheValid, lines 161-163 / 449-451.
IsCacheValid(timestamp, t) == (t - timestamp) < PRELOADING_CACHE_TTL

\* getArticles, the catch of lines 132-144 / 420-432: the stale entry read at
\* the start of the call if there was one, else the error is thrown again.
CatchInGetArticles(tk) ==
    IF tk.cached.present
    THEN [tk EXCEPT !.pc = "done", !.outcome = "returned",
                    !.result = Response(tk.cached.articles, tk.cached.source,
                                        "Offline")]
    ELSE [tk EXCEPT !.pc = "done", !.outcome = "thrown"]

\* getArticles, lines 91-110 / 376-394, up to the await.  A valid entry is
\* returned at once.  Otherwise this.networkService.getArticles is called:
\* with the field still null the call is a TypeError that the catch receives.
GetArticlesStart(t, category) ==
    /\ task[t].pc = "idle"
    /\ LET cached == preloadedCache[category]
           tk == [IdleTask EXCEPT !.kind = "getArticles", !.category = category,
                                  !.cached = cached]
       IN  task' = [task EXCEPT ![t] =
               IF cached.present /\ IsCacheValid(cached.timestamp, now)
               THEN [tk EXCEPT !.pc = "done", !.outcome = "returned",
                               !.result = Response(cached.articles, cached.source,
                                                   "Cached")]
               ELSE IF networkService
                    THEN [tk EXCEPT !.pc = "fetching", !.invoked = TRUE]
                    ELSE CatchInGetArticles(tk)]
    /\ UNCHANGED <<now, ehVars, rlVars, nsVars, fnVars, spVars, variant, networkService,
                   popularityService, preloadedCache>>

\* getArticles, lines 110-131 / 394-419, after the await: the network
\* service resolved with feed.  A feed with articles is ranked (in the lazy
\* source after removeDuplicates, and through this.popularityService, a
\* TypeError while that field is null), stored and returned: the eager
\* source returns the ranked list, the lazy one the list before ranking.
GetArticlesFetched(t, feed) ==
    /\ task[t].kind = "getArticles"
    /\ task[t].pc = "fetching"
    /\ LET category == task[t].category
           articles == IF variant = "lazy" THEN RemoveDuplicates(feed.data)
                       ELSE feed.data
           rankedArticles == RankArticlesByPopularity(articles, category)
       IN  IF Len(feed.data) > 0
           THEN IF popularityService
                THEN /\ preloadedCache' = [preloadedCache EXCEPT ![category] =
                            [Preloaded(rankedArticles, feed.source, now)
                                EXCEPT !.fetchedBeforeRefresh = task[t].overtaken]]
                     /\ task' = [task EXCEPT ![t].pc = "done",
                                             ![t].outcome = "returned",
                                             ![t].response = feed,
                                             ![t].result =
                            Response(IF variant = "lazy" THEN articles
                                     ELSE rankedArticles, feed.source, "Network")]
                ELSE /\ task' = [task EXCEPT ![t] =
                            CatchInGetArticles([task[t] EXCEPT !.response = feed])]
                     /\ UNCHANGED preloadedCache
           ELSE /\ task' = [task EXCEPT ![t].pc = "done",
                                        ![t].outcome = "returned",
                                        ![t].response = feed,
                                        ![t].result =
                       Response(feed.data, feed.source, "Network")]
                /\ UNCHANGED preloadedCache
    /\ UNCHANGED <<now, ehVars, rlVars, nsVars, fnVars, spVars, variant, networkService, popularityService>>

\* preloadCategory, lines 65-69 / 345-350, up to the await; the lazy source
\* sets this.networkService in getNetworkService (lines 246-256).
PreloadStartCall(t, category) ==
    /\ task[t].pc = "idle"
    /\ networkService' = TRUE
    /\ task' = [task EXCEPT ![t] =
           [IdleTask EXCEPT !.kind = "preloadCategory", !.category = category,
                            !.pc = "fetching", !.invoked = TRUE]]
    /\ UNCHANGED <<now, ehVars, rlVars, nsVars, fnVars, variant, popularityService,
                   preloadedCache>>

\* The same, called by preloadRelatedCategories or preloadCategories.
PreloadStart(t, category) == PreloadStartCall(t, category) /\ UNCHANGED spVars

(***************************************************************************)
(* PreloadingService.startPreloading (preloadingService.ts lines 46-60,     *)
(* popularityRankingService.ts lines 273-293).                              *)
(***************************************************************************)
\* The head of PRELOAD_CATEGORIES, lines 22-33: ALL first, then INDIA.
PRELOAD_CATEGORIES == <<"all", "india">>

TimerIds == 1..Len(PRELOAD_CATEGORIES)

\* How long startPreloading's timers are watched, in units of 2000 ms.
MaxTicks == 2

TimerDelayNone(i) == 0

\* Line 54: delay = i * 2000 for the zero-based position, in units of
\* 2000 ms.
TimerDelay(i) == i - 1

\* startPreloading has not been called.
SPIdle ==
    /\ timers = [i \in TimerIds |-> "none"]
    /\ spReturned = FALSE
    /\ spClock = 0
    /\ spLog = <<>>

\* startPreloading, lines 46-60: the loop sets one timer per category and
\* the function returns.
StartPreloading ==
    /\ ~spReturned
    /\ timers' = [i \in TimerIds |-> "set"]
    /\ spReturned' = TRUE
    /\ UNCHANGED <<spClock, spLog>>
    /\ UNCHANGED <<now, ehVars, rlVars, plVars, nsVars, fnVars>>

\* 2000 ms pass.
SPTick ==
    /\ spReturned
    /\ spClock < MaxTicks
    /\ spClock' = spClock + 1
    /\ UNCHANGED <<timers, spReturned, spLog>>
    /\ UNCHANGED <<now, ehVars, rlVars, plVars, nsVars, fnVars>>

\* Lines 56-58: the timer of position i has run out, no timer with a shorter
\* delay is still set, and its callback calls preloadCategory.
TimerFires(i, t) ==
    /\ timers[i] = "set"
    /\ TimerDelay(i) <= spClock
    /\ \A j \in TimerIds : j < i => timers[j] # "set"
    /\ PreloadStartCall(t, PRELOAD_CATEGORIES[i])
    /\ timers' = [timers EXCEPT ![i] = "fired"]
    /\ spLog' = Append(spLog, [category |-> PRELOAD_CATEGORIES[i], at |-> spClock])
    /\ UNCHANGED <<spReturned, spClock>>

\* preloadCategory without the test of line 71 / 352: whatever the network
\* service resolved with is ranked and stored.
PreloadFetchedStoresAny(t, feed) ==
    /\ task[t].kind = "preloadCategory"
    /\ task[t].pc = "fetching"
    /\ LET category == task[t].category
           articles == IF variant = "lazy" THEN RemoveDuplicates(feed.data)
                       ELSE feed.data
       IN  /\ popularityService' = TRUE
           /\ preloadedCache' = [preloadedCache EXCEPT ![category] =
                  [Preloaded(RankArticlesByPopularity(articles, category),
                             feed.source, now)
                      EXCEPT !.fetchedBeforeRefresh = task[t].overtaken]]
    /\ task' = [task EXCEPT ![t] = IdleTask]
    /\ UNCHANGED <<now, ehVars, rlVars, nsVars, fnVars, spVars, variant, networkService>>

\* preloadCategory, lines 69-85 / 350-370, after the await: a feed with
\* articles is ranked and stored (the lazy source removes duplicates and
\* sets this.popularityService in getPopularityService first), an empty one
\* changes nothing; the call is over.
PreloadFetched(t, feed) ==
    /\ task[t].kind = "preloadCategory"
    /\ task[t].pc = "fetching"
    /\ LET category == task[t].category
           articles == IF variant = "lazy" THEN RemoveDuplicates(feed.data)
                       ELSE feed.data
       IN  IF Len(feed.data) > 0
           THEN /\ popularityService' = TRUE
                /\ preloadedCache' = [preloadedCache EXCEPT ![category] =
                       [Preloaded(RankArticlesByPopularity(articles, category),
                                  feed.source, now)
                           EXCEPT !.fetchedBeforeRefresh = task[t].overtaken]]
           ELSE UNCHANGED <<popularityService, preloadedCache>>
    /\ task' = [task EXCEPT ![t] = IdleTask]
    /\ UNCHANGED <<now, ehVars, rlVars, nsVars, fnVars, spVars, variant, networkService>>

\* refreshCategory emptying the whole map (clear() in place of delete()).
RefreshStartClearsAll(t, category) ==
    /\ task[t].pc = "idle"
    /\ preloadedCache' = [c \in Categories |-> NoPreload]
    /\ task' = [task EXCEPT ![t] =
           [IdleTask EXCEPT !.kind = "refreshCategory", !.category = category,
                            !.pc = "done", !.outcome = "thrown"]]
    /\ UNCHANGED <<now, ehVars, rlVars, nsVars, fnVars, spVars, variant, networkService,
                   popularityService>>

\* refreshCategory, lines 150-156 / 438-444: the entry is deleted and
\* networkService.refreshArticles is called; in the lazy source the field may
\* still be null, and the call rejects with a TypeError after the delete.
RefreshStart(t, category) ==
    /\ task[t].pc = "idle"
    /\ preloadedCache' = [preloadedCache EXCEPT ![category] = NoPreload]
    /\ task' = [u \in Tasks |->
           IF u = t
           THEN IF networkService
                THEN [IdleTask EXCEPT !.kind = "refreshCategory",
                                      !.category = category,
                                      !.pc = "fetching", !.invoked = TRUE]
                ELSE [IdleTask EXCEPT !.kind = "refreshCategory",
                                      !.category = category,
                                      !.pc = "done", !.outcome = "thrown"]
           ELSE IF task[u].pc = "fetching" /\ task[u].category = category
                THEN [task[u] EXCEPT !.overtaken = TRUE]
                ELSE task[u]]
    /\ UNCHANGED <<now, ehVars, rlVars, nsVars, fnVars, spVars, variant, networkService,
                   popularityService>>

\* refreshCategory after refreshArticles has resolved: its response is
\* returned as it is; nothing is stored.
RefreshFetched(t, feed) ==
    /\ task[t].kind = "refreshCategory"
    /\ task[t].pc = "fetching"
    /\ task' = [task EXCEPT ![t].pc = "done", ![t].outcome = "returned",
                            ![t].response = feed,
                            ![t].result = Response(feed.data, feed.source, "Network")]
    /\ UNCHANGED <<now, ehVars, rlVars, nsVars, fnVars, spVars, variant, networkService,
                   popularityService, preloadedCache>>

\* The caller of getArticles has taken the response or the error.
GetArticlesReturn(t) ==
    /\ task[t].pc = "done"
    /\ task' = [task EXCEPT ![t] = IdleTask]
    /\ UNCHANGED <<now, ehVars, rlVars, nsVars, fnVars, spVars, variant, networkService,
                   popularityService, preloadedCache>>

(***************************************************************************)
(* articleDiversity.ts: removeDuplicateArticles, ensureSourceDiversity and   *)
(* combineAndDiversifyArticles.  An article is known by its id; titleKey is  *)
(* the set of characters of its normalised title (lines 74-77), which is all *)
(* calculateSimilarity looks at.                                             *)
(***************************************************************************)
MaxBatch == 3

DivIds == 1..7

DivArticleOf(a) ==
    CASE a = 1 -> [source |-> "A", titleKey |-> {1, 2, 3, 4, 5},    descLen |-> 1, publishedAt |-> 1]
      [] a = 2 -> [source |-> "B", titleKey |-> {2, 3, 4, 5, 6},    descLen |-> 1, publishedAt |-> 2]
      [] a = 3 -> [source |-> "C", titleKey |-> {1, 2, 3, 4, 5, 6}, descLen |-> 2, publishedAt |-> 3]
      [] a = 4 -> [source |-> "A", titleKey |-> {7, 8},             descLen |-> 1, publishedAt |-> 4]
      [] a = 5 -> [source |-> "B", titleKey |-> {9, 10},            descLen |-> 3, publishedAt |-> 5]
      [] a = 6 -> [source |-> "A", titleKey |-> {1, 2, 3, 4, 5},    descLen |-> 3, publishedAt |-> 6]
      [] OTHER -> [source |-> "C", titleKey |-> {11, 12},           descLen |-> 1, publishedAt |-> 7]

\* Arrays of up to n different articles.
DivSeqs(n) ==
    UNION {{q \in [1..k -> DivIds] : \A i, j \in 1..k : i # j => q[i] # q[j]} : k \in 0..n}

\* calculateSimilarity(str1, str2) > 0.8, lines 82 and 109-117; for two empty
\* strings the quotient is NaN and the comparison false.
CalculateSimilarityAbove(key1, key2) ==
    /\ key1 \cup key2 # {}
    /\ 10 * Cardinality(key1 \cap key2) > 8 * Cardinality(key1 \cup key2)

\* The Map seen as a sequence of [key, article] in insertion order, and
\* seen.set(key, article): an existing key keeps its place.
SeenSet(m, key, a) ==
    IF \E i \in 1..Len(m) : m[i].key = key
    THEN [i \in 1..Len(m) |-> IF m[i].key = key
                              THEN [key |-> key, article |-> a] ELSE m[i]]
    ELSE Append(m, [key |-> key, article |-> a])

\* uniqueArticles.indexOf(a), 0 for -1.
IndexOf(l, a) ==
    IF \E i \in 1..Len(l) : l[i] = a
    THEN CHOOSE i \in 1..Len(l) : l[i] = a /\ \A j \in 1..(i - 1) : l[j] # a
    ELSE 0

\* One round of the forEach of lines 72-101.
RemoveDuplicateStep(st, a) ==
    LET key  == DivArticleOf(a).titleKey
        hits == {i \in 1..Len(st.seen) : CalculateSimilarityAbove(key, st.seen[i].key)}
    IN  IF hits = {}
        THEN [seen |-> SeenSet(st.seen, key, a), unique |-> Append(st.unique, a)]
        ELSE LET first    == CHOOSE i \in hits : \A j \in hits : i <= j
                 existing == st.seen[first].article
                 index    == IndexOf(st.unique, existing)
             IN  IF /\ DivArticleOf(a).descLen > DivArticleOf(existing).descLen
                    /\ index # 0
                 THEN [seen |-> SeenSet(st.seen, key, a),
                       unique |-> [st.unique EXCEPT ![index] = a]]
                 ELSE st

RECURSIVE RemoveDuplicateLoop(_, _)
RemoveDuplicateLoop(st, articles) ==
    IF articles = <<>> THEN st
    ELSE RemoveDuplicateLoop(RemoveDuplicateStep(st, Head(articles)), Tail(articles))

\* removeDuplicateArticles, lines 68-104.
RemoveDuplicateArticles(articles) ==
    RemoveDuplicateLoop([seen |-> <<>>, unique |-> <<>>], articles).unique

\* shuffleArticles, lines 6-13: any order Math.random() can produce.
ShuffleArticles(articles) ==
    LET n == Len(articles)
    IN  {[i \in 1..n |-> articles[p[i]]] :
            p \in {q \in [1..n -> 1..n] : \A i, j \in 1..n : i # j => q[i] # q[j]}}

\* Lines 22-29 and 38: the sources in order of first appearance.
RECURSIVE SourcesOf(_)
SourcesOf(articles) ==
    IF articles = <<>> THEN <<>>
    ELSE LET rest == SourcesOf(SubSeq(articles, 1, Len(articles) - 1))
             src  == DivArticleOf(articles[Len(articles)]).source
         IN  IF \E i \in 1..Len(rest) : rest[i] = src THEN rest ELSE Append(rest, src)

\* The articles of one source, in their order.
RECURSIVE BySource(_, _)
BySource(articles, src) ==
    IF articles = <<>> THEN <<>>
    ELSE IF DivArticleOf(Head(articles)).source = src
         THEN <<Head(articles)>> \o BySource(Tail(articles), src)
         ELSE BySource(Tail(articles), src)

\* Lines 42-47 (r = 1) and one pass of the for of lines 53-59: the r-th
\* article of every source that has one, in the order of sources.
RECURSIVE RoundOf(_, _, _)
RoundOf(articles, sources, r) ==
    IF sources = <<>> THEN <<>>
    ELSE LET mine == BySource(articles, Head(sources))
         IN  (IF Len(mine) >= r THEN <<mine[r]>> ELSE <<>>)
             \o RoundOf(articles, Tail(sources), r)

\* The lists of the sources one after the other, without the round-robin.
RECURSIVE InterleaveGrouped(_, _, _)
InterleaveGrouped(articles, sources, r) ==
    IF sources = <<>> THEN <<>>
    ELSE BySource(articles, Head(sources))
         \o InterleaveGrouped(articles, Tail(sources), r)

RECURSIVE Interleave(_, _, _)
Interleave(articles, sources, r) ==
    IF r > Len(articles) THEN <<>>
    ELSE RoundOf(articles, sources, r) \o Interleave(articles, sources, r + 1)

\* ensureSourceDiversity, lines 18-63: the values it can return.
EnsureSourceDiversity(articles, minSources) ==
    IF articles = <<>> THEN {<<>>}
    ELSE IF Len(SourcesOf(articles)) < minSources THEN ShuffleArticles(articles)
    ELSE {Interleave(articles, SourcesOf(articles), 1)}

\* The sort of lines 133-135: newest first, equal dates in their order.
RECURSIVE SortByDate(_)
SortByDate(articles) ==
    IF articles = <<>> THEN <<>>
    ELSE LET rest == SortByDate(SubSeq(articles, 1, Len(articles) - 1))
             a    == articles[Len(articles)]
             k    == Cardinality({i \in 1..Len(rest) :
                        DivArticleOf(rest[i]).publishedAt >= DivArticleOf(a).publishedAt})
         IN  SubSeq(rest, 1, k) \o <<a>> \o SubSeq(rest, k + 1, Len(rest))

\* articleArrays.flat(), line 127.
RECURSIVE Flat(_)
Flat(arrays) == IF arrays = <<>> THEN <<>> ELSE Head(arrays) \o Flat(Tail(arrays))

\* slice(0, n).
Slice(l, n) == SubSeq(l, 1, IF n < Len(l) THEN n ELSE Len(l))

\* combineAndDiversifyArticles, lines 122-142: the values it can return.
CombineAndDiversifyArticles(articleArrays, targetCount) ==
    {Slice(d, targetCount) :
        d \in EnsureSourceDiversity(
                  SortByDate(RemoveDuplicateArticles(Flat(articleArrays))), 3)}

\* The arguments of a combineAndDiversifyArticles call: two providers'
\* batches and a target count.
CombineInputs ==
    UNION {{[articleArrays |-> <<SubSeq(q, 1, k), SubSeq(q, k + 1, Len(q))>>,
             targetCount |-> n] : k \in 0..Len(q), n \in 1..MaxBatch} :
           q \in DivSeqs(MaxBatch)}

\* One call of combineAndDiversifyArticles.
CombineCall ==
    /\ ~fnDone
    /\ fnOut' \in CombineAndDiversifyArticles(fnIn.articleArrays, fnIn.targetCount)
    /\ fnDone' = TRUE
    /\ UNCHANGED <<now, ehVars, rlVars, plVars, nsVars, spVars, fnIn, fanOut>>

\* One call of removeDuplicateArticles.
RemoveDuplicatesCall ==
    /\ ~fnDone
    /\ fnOut' = RemoveDuplicateArticles(fnIn)
    /\ fnDone' = TRUE
    /\ UNCHANGED <<now, ehVars, rlVars, plVars, nsVars, spVars, fnIn, fanOut>>

\* The longest array ensureSourceDiversity is called with.
MaxDiverse == 4

\* The arguments of an ensureSourceDiversity call, line 18.
EnsureDiversityInputs ==
    {[articles |-> q, minSources |-> n] : q \in DivSeqs(MaxDiverse), n \in 1..3}

\* One call of ensureSourceDiversity.
EnsureDiversityCall ==
    /\ ~fnDone
    /\ fnOut' \in EnsureSourceDiversity(fnIn.articles, fnIn.minSources)
    /\ fnDone' = TRUE
    /\ UNCHANGED <<now, ehVars, rlVars, plVars, nsVars, spVars, fnIn, fanOut>>

(***************************************************************************)
(* CategoryService.getSoftwareArticles (categoryService.ts lines 63-107):   *)
(* the fan-out to three providers and the fan-in of Promise.allSettled.     *)
(***************************************************************************)
\* DevToService.fetchArticles, HackerNewsService.fetchTopStories and
\* NewsApiService.fetchArticles, lines 65-75.
Providers == {"devTo", "hackerNews", "newsApi"}

\* What a provider's promise does: it fulfils with articles, fulfils with an
\* empty list (the providers' own catch and abort-timer paths), rejects, or
\* never settles.
Fates == {"fulfilled", "empty", "rejected", "never"}

\* The article a provider's response holds: three sources, titles unlike
\* each other.
ProviderArticle(p) ==
    CASE p = "devTo" -> 4 [] p = "hackerNews" -> 5 [] OTHER -> 7

\* No call of getSoftwareArticles is in progress.
FanIdle == [pc |-> "idle", fate |-> [p \in Providers |-> "never"],
            results |-> [p \in Providers |-> "pending"], data |-> <<>>]

\* Lines 63-78: the three provider calls are started and allSettled awaited.
FanOutStart(f) ==
    /\ fanOut.pc = "idle"
    /\ fanOut' = [FanIdle EXCEPT !.pc = "waiting", !.fate = f]
    /\ UNCHANGED <<now, ehVars, rlVars, plVars, nsVars, spVars, fnIn, fnOut, fnDone>>

\* The promise of provider p settles.
ProviderSettles(p) ==
    /\ fanOut.pc = "waiting"
    /\ fanOut.results[p] = "pending"
    /\ fanOut.fate[p] # "never"
    /\ fanOut' = [fanOut EXCEPT !.results[p] = fanOut.fate[p]]
    /\ UNCHANGED <<now, ehVars, rlVars, plVars, nsVars, spVars, fnIn, fnOut, fnDone>>

\* Lines 79-85: the article arrays of the fulfilled, non-empty results, in
\* the order of the sources.
FanArray(results, p) ==
    IF results[p] = "fulfilled" THEN <<<<ProviderArticle(p)>>>> ELSE <<>>

FanArrays(results) ==
    FanArray(results, "devTo") \o FanArray(results, "hackerNews")
    \o FanArray(results, "newsApi")

\* Line 88: for each way the three promises can have settled, the lists
\* combineAndDiversifyArticles(articleArrays, limit) can return, limit
\* being 3.
Merged ==
    UNION {{[results |-> r, data |-> d] :
               d \in CombineAndDiversifyArticles(FanArrays(r), Cardinality(Providers))} :
           r \in [Providers -> Fates \ {"never"}]}

\* Lines 78-96: every promise has settled; allSettled resolves and the merged
\* list is returned.
FanIn ==
    /\ fanOut.pc = "waiting"
    /\ \A p \in Providers : fanOut.results[p] # "pending"
    /\ fanOut' \in {[fanOut EXCEPT !.pc = "returned", !.data = d] :
                       d \in {m.data : m \in {x \in Merged : x.results = fanOut.results}}}
    /\ UNCHANGED <<now, ehVars, rlVars, plVars, nsVars, spVars, fnIn, fnOut, fnDone>>

\* The caller has taken the result.
FanReturn ==
    /\ fanOut.pc = "returned"
    /\ fanOut' = FanIdle
    /\ UNCHANGED <<now, ehVars, rlVars, plVars, nsVars, spVars, fnIn, fnOut, fnDone>>

\* No stateless function is being called.
FnIdle == fnIn = <<>> /\ fnOut = <<>> /\ fnDone = FALSE /\ fanOut = FanIdle

(***************************************************************************)
(* isSimilarTitle on title texts (networkService.ts lines 308-323,          *)
(* popularityRankingService.ts lines 325-340).  A title is the sequence of  *)
(* its whitespace-separated tokens.                                         *)
(***************************************************************************)
\* t.replace(/[^\w\s]/g, '').toLowerCase() on one token.
StripLower(w) ==
    CASE w = "Parliament" -> "parliament"
      [] w = "PARLIAMENT" -> "parliament"
      [] w = "Winter"     -> "winter"
      [] w = "Session"    -> "session"
      [] w = "Begins"     -> "begins"
      [] w = "Begins!"    -> "begins"
      [] w = "Commences"  -> "commences"
      [] w = "Supreme"    -> "supreme"
      [] w = "Court"      -> "court"
      [] w = "Ruling"     -> "ruling"
      [] w = "Privacy"    -> "privacy"
      [] OTHER            -> w

\* normalize, lines 309-310 (326-327): the set of the words longer than 3.
Normalize(title) ==
    {StripLower(title[i]) : i \in {j \in 1..Len(title) : Len(StripLower(title[j])) > 3}}

\* Lines 312-322 (329-339) on the two word sets.
SimilarWordsLoose(words1, words2) ==
    IF words1 = {} /\ words2 = {} THEN TRUE
    ELSE IF words1 = {} \/ words2 = {} THEN FALSE
    ELSE 10 * Cardinality(words1 \cap words2) >= 6 * Cardinality(words1 \cup words2)

SimilarWords(words1, words2) ==
    IF words1 = {} /\ words2 = {} THEN TRUE
    ELSE IF words1 = {} \/ words2 = {} THEN FALSE
    ELSE 10 * Cardinality(words1 \cap words2) >= 7 * Cardinality(words1 \cup words2)

\* isSimilarTitle(title1, title2), lines 308-323 (325-340).
IsSimilarTitleText(title1, title2) == SimilarWords(Normalize(title1), Normalize(title2))

TitleBegins    == <<"Parliament", "Winter", "Session", "Begins">>
TitleCommences == <<"Parliament", "Winter", "Session", "Commences">>
TitleRuling    == <<"Supreme", "Court", "Ruling", "on", "Privacy">>
TitleShouted   == <<"PARLIAMENT", "Winter", "Session", "Begins!">>

\* The titles isSimilarTitle is called with: the four above and their
\* beginnings.
Titles ==
    UNION {{SubSeq(t, 1, n) : n \in 0..Len(t)} :
              t \in {TitleBegins, TitleCommences, TitleRuling, TitleShouted}}

\* The arguments of rankArticlesByPopularity: up to MaxBatch distinct
\* articles and the target category.
RankInputs ==
    [articles : UNION {{q \in [1..k -> Articles] :
                           \A i, j \in 1..k : i # j => q[i] # q[j]} : k \in 0..MaxBatch},
     category : Categories]

\* One call of rankArticlesByPopularity.
RankCall ==
    /\ ~fnDone
    /\ fnOut' = RankArticlesByPopularity(fnIn.articles, fnIn.category)
    /\ fnDone' = TRUE
    /\ UNCHANGED <<now, ehVars, rlVars, plVars, nsVars, spVars, fnIn, fanOut>>

\* Ages in hours around every step of calculateRecencyScore; a publication
\* date in the future gives a negative age.
Ages == {-1, 0, 1, 2, 3, 12, 13, 24, 25, 72, 73, 168, 169}

\* Two articles that differ in publishedAt only, and the target category.
ScoreInputs == [article : Articles, category : Categories, age1 : Ages, age2 : Ages]

\* enhanceArticleWithPopularity on the two articles at one instant.
ScorePairCall ==
    /\ ~fnDone
    /\ fnOut' = <<OverallScoreAt(fnIn.article, fnIn.category, fnIn.age1),
                  OverallScoreAt(fnIn.article, fnIn.category, fnIn.age2)>>
    /\ fnDone' = TRUE
    /\ UNCHANGED <<now, ehVars, rlVars, plVars, nsVars, spVars, fnIn, fanOut>>

\* One call of isSimilarTitle.
SimilarTitleCall ==
    /\ ~fnDone
    /\ fnOut' = <<IsSimilarTitleText(fnIn[1], fnIn[2])>>
    /\ fnDone' = TRUE
    /\ UNCHANGED <<now, ehVars, rlVars, plVars, nsVars, spVars, fnIn, fanOut>>

(***************************************************************************)
(* NetworkService.getArticles of networkService.ts, lines 27-101: demo data  *)
(* first when DEV_CONFIG says so, else CategoryService.getArticles (an       *)
(* executeWithFallback call) raced against a timer of getNetworkTimeout()    *)
(* ms, and mock data when the race is lost or the response is empty.         *)
(* getMockArticlesAsync (part_005 lines 347-351) is a timer and a lookup in  *)
(* a literal array: it always resolves.                                      *)
(***************************************************************************)
\* DEV_CONFIG.NETWORK_TIMEOUT (developmentConfig.ts line 13): 5000 ms, one tick.
NETWORK_TIMEOUT == 1

\* DEV_CONFIG (developmentConfig.ts lines 6-20) as isInDemoMode() and
\* shouldBypassNetwork() read it.
NSConfigs == {"network", "demoFirst", "demoOnly"}

\* getMockArticlesAsync's response with the suffix getArticles appends.
NSMock(suffix) == [kind |-> "mock", source |-> "Mock Data Service (Demo Mode) " \o suffix,
                   count |-> 10]

NSInit(configs) ==
    /\ nsConfig \in configs
    /\ nsPc = "idle"
    /\ nsCall = "c1"
    /\ nsStartedAt = 0
    /\ nsResult = NoData
    /\ nsTimedOut = FALSE
    /\ isNetworkAvailable = TRUE

\* Lines 33-62: isInDemoMode() or shouldBypassNetwork(); the mock data is
\* awaited.
NSGetArticlesDemo ==
    /\ nsPc = "idle"
    /\ nsConfig # "network"
    /\ nsPc' = "demo"
    /\ nsResult' = NoData
    /\ nsTimedOut' = FALSE
    /\ UNCHANGED <<nsConfig, nsCall, nsStartedAt, isNetworkAvailable>>
    /\ UNCHANGED <<now, ehVars, rlVars, plVars, fnVars, spVars>>

\* Lines 39-47 (or 56-60): the mock data has arrived and is returned.
NSDemoDone ==
    /\ nsPc = "demo"
    /\ nsPc' = "done"
    /\ nsResult' = NSMock(IF nsConfig = "demoFirst" THEN "(Development Mode)"
                                                    ELSE "(Demo Only Mode)")
    /\ UNCHANGED <<nsConfig, nsCall, nsStartedAt, nsTimedOut, isNetworkAvailable>>
    /\ UNCHANGED <<now, ehVars, rlVars, plVars, fnVars, spVars>>

\* Lines 64-74: the timer is set, categoryService.getArticles is called (it
\* runs executeWithFallback up to its first await) and the race is awaited.
NSGetArticlesNetwork(c, n) ==
    /\ nsPc = "idle"
    /\ nsConfig = "network"
    /\ StartCall(c, n)
    /\ nsPc' = "racing"
    /\ nsCall' = c
    /\ nsStartedAt' = now
    /\ nsResult' = NoData
    /\ nsTimedOut' = FALSE
    /\ UNCHANGED <<nsConfig, isNetworkAvailable>>

\* Lines 74-98: dataPromise settled first.  A response with articles is
\* returned; an empty one throws into the catch, which awaits the mock data.
NSPipelineDone ==
    /\ nsPc = "racing"
    /\ pc[nsCall] = "done"
    /\ IF result[nsCall].count > 0
       THEN /\ nsPc' = "done"
            /\ nsResult' = result[nsCall]
            /\ isNetworkAvailable' = TRUE
       ELSE /\ nsPc' = "mock"
            /\ isNetworkAvailable' = FALSE
            /\ UNCHANGED nsResult
    /\ UNCHANGED <<nsConfig, nsCall, nsStartedAt, nsTimedOut>>
    /\ UNCHANGED <<now, ehVars, rlVars, plVars, fnVars, spVars>>

\* Lines 70-72 and 87-98: the timer fires while the call behind dataPromise
\* waits for its operation, its sleep or AsyncStorage; the race rejects into
\* the catch, which awaits the mock data.  The call goes on unobserved.
NSTimeout ==
    /\ nsPc = "racing"
    /\ pc[nsCall] \in {"op", "sleep", "getItem", "removeItem"}
    /\ now - nsStartedAt >= NETWORK_TIMEOUT
    /\ nsPc' = "mock"
    /\ nsTimedOut' = TRUE
    /\ isNetworkAvailable' = FALSE
    /\ UNCHANGED <<nsConfig, nsCall, nsStartedAt, nsResult>>
    /\ UNCHANGED <<now, ehVars, rlVars, plVars, fnVars, spVars>>

\* Lines 95-99: the mock data has arrived and is returned.
NSMockDone ==
    /\ nsPc = "mock"
    /\ nsPc' = "done"
    /\ nsResult' = NSMock("(Network Failed - Demo Fallback)")
    /\ UNCHANGED <<nsConfig, nsCall, nsStartedAt, nsTimedOut, isNetworkAvailable>>
    /\ UNCHANGED <<now, ehVars, rlVars, plVars, fnVars, spVars>>

\* The caller has taken the response; getArticles can be called again.
NSReturn ==
    /\ nsPc = "done"
    /\ nsPc' = "idle"
    /\ nsResult' = NoData
    /\ nsTimedOut' = FALSE
    /\ UNCHANGED <<nsConfig, nsCall, nsStartedAt, isNetworkAvailable>>
    /\ UNCHANGED <<now, ehVars, rlVars, plVars, fnVars, spVars>>

\* The steps of call c, but for those that handle an expired stored entry.
CallStep(c) ==
    \/ \E n \in 0..MaxFallbacks : Start(c, n)
    \/ AfterRateLimit(c)
    \/ \E n \in 0..MaxArticles : OpSucceeds(c, n)
    \/ OpFails(c)
    \/ SleepDone(c)
    \/ RetryReturns(c)
    \/ LoadFresh(c)
    \/ \E m \in BOOLEAN : LoadMissing(c, m)
    \/ \E m \in BOOLEAN : LoadFails(c, m)
    \/ Return(c)

\* The steps of call c that handle an expired stored entry.
ExpiryStep(c) ==
    \/ LoadExpired(c)
    \/ \E ok \in BOOLEAN, m \in BOOLEAN : RemoveDone(c, ok, m)

Init == EHInit({EmptyStore, EarlierStore}) /\ RLInit({DefaultParams}) /\ PLInit({"lazy"})
    /\ NSInit({"network"}) /\ FnIdle /\ SPIdle

\* One executeWithFallback call at a time, with the cache cleared and time
\* passing at any moment.
Next ==
    \/ \E c \in Solo : CallStep(c)
    \/ \E c \in Solo : ExpiryStep(c)
    \/ ClearCache
    \/ \E ok \in BOOLEAN : StorageOpDone(ok)
    \/ Advance(MaxTime)

Spec == Init /\ [][Next]_vars

\* Two executeWithFallback calls on the same key and service in any
\* interleaving, within one tick: nothing expires.
NextConcurrent ==
    \/ \E c \in Calls : CallStep(c)
    \/ \E ok \in BOOLEAN : StorageOpDone(ok)

SpecConcurrent == Init /\ [][NextConcurrent]_vars

\* The same with the event loop at work: a continuation that can run does
\* run, every operation invoked settles, every AsyncStorage call completes.
SpecConcurrentFair ==
    /\ Init /\ [][NextConcurrent]_vars
    /\ \A c \in Calls : WF_vars(CallStep(c))
    /\ WF_vars(\E ok \in BOOLEAN : StorageOpDone(ok))

\* checkRateLimit called for any service at any time, with parameters chosen
\* once.
InitRateLimit == EHInit({EmptyStore}) /\ RLInit(RateLimitParams) /\ PLInit({"lazy"})
    /\ NSInit({"network"}) /\ FnIdle /\ SPIdle

NextRateLimit ==
    \/ \E s \in RateLimitKeys : CheckRateLimit(s)
    \/ Advance(RateLimitHorizon)

SpecRateLimit == InitRateLimit /\ [][NextRateLimit]_vars

\* Direct calls of checkRateLimit whose maxRequests differs from call to call.
MixedParams == [maxRequests : {0, DEFAULT_MAX_REQUESTS}, windowMs : {DEFAULT_WINDOW_MS}]

NextRateLimitMixed ==
    \/ \E s \in RateLimitKeys, p \in MixedParams : CheckRateLimitWith(s, p)
    \/ Advance(RateLimitHorizon)

InitRateLimitMixed == EHInit({EmptyStore}) /\ RLInit({DefaultParams}) /\ PLInit({"lazy"})
    /\ NSInit({"network"}) /\ FnIdle /\ SPIdle

SpecRateLimitMixed == InitRateLimitMixed /\ [][NextRateLimitMixed]_vars

\* A PreloadingService of either source, with getArticles and
\* preloadCategory calls in any interleaving and time passing.
InitPreload == EHInit({EmptyStore}) /\ RLInit({DefaultParams}) /\ PLInit(Variants)
    /\ NSInit({"network"}) /\ FnIdle /\ SPIdle

NextPreload ==
    \/ \E t \in Tasks, category \in Categories : GetArticlesStart(t, category)
    \/ \E t \in Tasks, feed \in Feeds : GetArticlesFetched(t, feed)
    \/ \E t \in Tasks, category \in Categories : PreloadStart(t, category)
    \/ \E t \in Tasks, feed \in Feeds : PreloadFetched(t, feed)
    \/ \E t \in Tasks : GetArticlesReturn(t)
    \/ Advance(MaxTime)

SpecPreload == InitPreload /\ [][NextPreload]_vars

\* The same with refreshCategory calls among them.
NextRefresh ==
    \/ NextPreload
    \/ \E t \in Tasks, category \in Categories : RefreshStart(t, category)
    \/ \E t \in Tasks, feed \in Feeds : RefreshFetched(t, feed)

SpecRefresh == InitPreload /\ [][NextRefresh]_vars

\* The same calls for Category.INDIA with the network service of
\* networkService.ts lines 210-441 behind them.
NextEndToEnd ==
    \/ \E t \in Tasks : GetArticlesStart(t, "india")
    \/ \E t \in Tasks, feed \in NetworkFeeds : GetArticlesFetched(t, feed)
    \/ \E t \in Tasks : PreloadStart(t, "india")
    \/ \E t \in Tasks, feed \in NetworkFeeds : PreloadFetched(t, feed)
    \/ \E t \in Tasks : GetArticlesReturn(t)
    \/ Advance(MaxTime)

SpecEndToEnd == InitPreload /\ [][NextEndToEnd]_vars

\* NetworkService.getArticles in front of one executeWithFallback call, with
\* time passing.
PipelineStep(c) ==
    \/ AfterRateLimit(c)
    \/ \E n \in 0..MaxArticles : OpSucceeds(c, n)
    \/ OpFails(c)
    \/ SleepDone(c)
    \/ RetryReturns(c)
    \/ LoadFresh(c)
    \/ \E m \in BOOLEAN : LoadMissing(c, m)
    \/ \E m \in BOOLEAN : LoadFails(c, m)
    \/ nsPc # "racing" /\ Return(c)
    \/ ExpiryStep(c)

InitNetwork == EHInit({EmptyStore, EarlierStore}) /\ RLInit({DefaultParams}) /\ PLInit({"lazy"})
               /\ NSInit(NSConfigs) /\ FnIdle /\ SPIdle

NextNetwork ==
    \/ NSGetArticlesDemo
    \/ NSDemoDone
    \/ \E c \in Solo, n \in 0..MaxFallbacks : NSGetArticlesNetwork(c, n)
    \/ NSPipelineDone
    \/ NSTimeout
    \/ NSMockDone
    \/ NSReturn
    \/ \E c \in Solo : PipelineStep(c)
    \/ \E ok \in BOOLEAN : StorageOpDone(ok)
    \/ Advance(MaxTime)

SpecNetwork == InitNetwork /\ [][NextNetwork]_vars

\* Calls of the functions of articleDiversity.ts, and nothing else.
InitOthers == EHInit({EmptyStore}) /\ RLInit({DefaultParams}) /\ PLInit({"lazy"})
              /\ NSInit({"network"}) /\ fanOut = FanIdle /\ SPIdle

InitCombine == InitOthers /\ fnIn \in CombineInputs /\ fnOut = <<>> /\ fnDone = FALSE

SpecCombine == InitCombine /\ [][CombineCall]_vars

InitRemoveDuplicates ==
    InitOthers /\ fnIn \in DivSeqs(MaxBatch) /\ fnOut = <<>> /\ fnDone = FALSE

SpecRemoveDuplicates == InitRemoveDuplicates /\ [][RemoveDuplicatesCall]_vars

InitEnsureDiversity ==
    InitOthers /\ fnIn \in EnsureDiversityInputs /\ fnOut = <<>> /\ fnDone = FALSE

SpecEnsureDiversity == InitEnsureDiversity /\ [][EnsureDiversityCall]_vars

InitSimilarTitle ==
    InitOthers /\ fnIn \in Titles \X Titles /\ fnOut = <<>> /\ fnDone = FALSE

SpecSimilarTitle == InitSimilarTitle /\ [][SimilarTitleCall]_vars

InitRank == InitOthers /\ fnIn \in RankInputs /\ fnOut = <<>> /\ fnDone = FALSE

SpecRank == InitRank /\ [][RankCall]_vars

\* getSoftwareArticles called again and again, the event loop at work: a
\* promise that settles does settle, and allSettled's continuation runs.
NextFanOut ==
    \/ \E f \in [Providers -> Fates] : FanOutStart(f)
    \/ \E p \in Providers : ProviderSettles(p)
    \/ FanIn
    \/ FanReturn

InitFanOut == InitOthers /\ FnIdle

SpecFanOut ==
    /\ InitFanOut /\ [][NextFanOut]_vars
    /\ \A p \in Providers : WF_vars(ProviderSettles(p))
    /\ WF_vars(FanIn)

\* startPreloading called once at the start of the app; its timers fire
\* when due, the feeds arrive when they arrive or never.
InitStartPreloading ==
    /\ EHInit({EmptyStore}) /\ RLInit({DefaultParams}) /\ PLInit(Variants)
    /\ NSInit({"network"}) /\ FnIdle /\ SPIdle

NextStartPreloading ==
    \/ StartPreloading
    \/ SPTick
    \/ \E i \in TimerIds, t \in Tasks : TimerFires(i, t)
    \/ \E t \in Tasks, feed \in Feeds : PreloadFetched(t, feed)

SpecStartPreloading ==
    /\ InitStartPreloading /\ [][NextStartPreloading]_vars
    /\ WF_vars(StartPreloading)
    /\ WF_vars(SPTick)
    /\ WF_vars(\E i \in TimerIds, t \in Tasks : TimerFires(i, t))

InitScore == InitOthers /\ fnIn \in ScoreInputs /\ fnOut = <<>> /\ fnDone = FALSE

SpecScore == InitScore /\ [][ScorePairCall]_vars

(***************************************************************************)
(* Properties of ErrorHandler.                                             *)
(***************************************************************************)

\* Every tier of call c was attempted and failed on each attempt.
AllTiersFailed(c) == \A i \in 0..nfb[c] : tierLog[c][i] = "failed"

\* Every tier of call c was attempted and failed, or was skipped by the
\* rate limiter.
AllTiersSpent(c) == \A i \in 0..nfb[c] : tierLog[c][i] \in {"failed", "denied"}

\* The source labels of the two placeholder generators.
PlaceholderLabels ==
    {"Mock Data Service (Demo Mode) (Network Unavailable)",
     "CategoryIndia (Offline - Sample Data)"}

\* C1: executeWithFallback never ends in an exception: whatever the
\* operations, the rate limiter, the cache and AsyncStorage do, a call that
\* has ended has returned a response.
C1_NeverThrows ==
    \A c \in Calls :
        /\ outcome[c] # "thrown"
        /\ pc[c] = "done" => outcome[c] = "returned" /\ result[c] # NoData

\* C1 witness: a call whose two tiers failed and whose read of AsyncStorage
\* threw has ended.
C1_Witness ==
    /\ pc["c1"] = "done"
    /\ nfb["c1"] = MaxFallbacks
    /\ AllTiersFailed("c1")
    /\ durable["c1"] = "failed"

\* C2: when every tier failed and neither the map nor AsyncStorage held an
\* entry for the key, the call returns placeholder articles, at least one,
\* under a label that says so.
C2_PlaceholderWhenNothingLeft ==
    \A c \in Calls :
        (/\ pc[c] = "done"
         /\ AllTiersFailed(c)
         /\ ~seen[c].present
         /\ durable[c] = "missing")
        => /\ result[c].kind \in {"mock", "sample"}
           /\ result[c].count > 0
           /\ result[c].source \in PlaceholderLabels

\* C2 witness: such a call has ended, with the sample articles.
C2_Witness ==
    /\ pc["c1"] = "done"
    /\ AllTiersFailed("c1")
    /\ ~seen["c1"].present
    /\ durable["c1"] = "missing"
    /\ result["c1"] = SampleData

\* C3: a response without articles is never returned as a tier's success and
\* never put in the cache.
C3_EmptyIsFailure ==
    /\ \A c \in Calls :
           pc[c] = "done" /\ origin[c] = "op" => result[c].count > 0
    /\ \A k \in Keys : cache[k].present => cache[k].data.count > 0

\* C5: the expiry-aware read of line 287 returns the entry exactly when the
\* map held one whose age was strictly below its ttl, and then that entry.
C5_FreshIffYoungerThanTtl ==
    \A c \in Calls :
        pc[c] # "idle" =>
            /\ cachedData[c].present <=>
                   (seen[c].present /\ startedAt[c] - seen[c].timestamp < seen[c].ttl)
            /\ cachedData[c].present => cachedData[c] = seen[c]

\* C5 witness: a read at the boundary, age equal to ttl, reported no entry.
C5_Witness ==
    /\ pc["c1"] # "idle"
    /\ seen["c1"].present
    /\ startedAt["c1"] - seen["c1"].timestamp = seen["c1"].ttl
    /\ ~cachedData["c1"].present

\* C6: a call that found an expired entry in the map and whose tiers all
\* failed returns that entry's payload.
C6_ExpiredPayloadServed ==
    \A c \in Calls :
        (/\ pc[c] = "done"
         /\ seen[c].present
         /\ startedAt[c] - seen[c].timestamp >= seen[c].ttl
         /\ AllTiersFailed(c))
        => result[c] = seen[c].data

\* C7: when a call returns the result of an operation that succeeded, the
\* map holds at that moment an entry for the key with that result as payload.
C7_SuccessIsCached ==
    [][\A c \in Calls :
          (pc[c] # "done" /\ pc'[c] = "done" /\ origin'[c] = "op")
          => /\ cache'[CacheKey].present
             /\ cache'[CacheKey].data = result'[c]]_vars

\* C7 witness: a call has returned what its fallback fetched and the other
\* call is between its operation and its return.
C7_Witness ==
    /\ pc["c1"] = "done"
    /\ origin["c1"] = "op"
    /\ tier["c1"] = 1
    /\ pc["c2"] = "retried"
    /\ cache[CacheKey].data = result["c1"]

\* C8 as stated: cached data is returned only after every tier was attempted
\* and failed or was skipped by the rate limiter.
C8_CacheOnlyOnExhaustion ==
    \A c \in Calls :
        pc[c] = "done" /\ origin[c] \in {"retryCache", "fresh", "expired", "durable"}
        => AllTiersSpent(c)

\* C8 amended: the exhaustion tiers (snapshot, map, AsyncStorage, placeholder)
\* are used only after every tier was attempted and failed or was skipped,
\* and are consulted in that order; besides, executeWithRetry returns a fresh
\* entry of the map in place of invoking the operation of a tier that the
\* rate limiter let through.
C8_CacheTiers ==
    \A c \in Calls :
        pc[c] = "done" =>
            /\ origin[c] \in {"fresh", "expired", "durable", "mock", "sample"}
               => /\ AllTiersSpent(c)
                  /\ probes[c] =
                       CASE origin[c] = "fresh" -> <<"fresh">>
                         [] origin[c] = "expired" -> <<"fresh", "memory">>
                         [] origin[c] = "durable" -> <<"fresh", "memory", "durable">>
                         [] OTHER -> <<"fresh", "memory", "durable", "placeholder">>
                  /\ origin[c] # "fresh" => ~cachedData[c].present
            /\ origin[c] = "retryCache"
               => /\ tierLog[c][tier[c]] = "hit"
                  /\ allowed[c]
                  /\ \A i \in 0..(tier[c] - 1) : tierLog[c][i] \in {"failed", "denied"}
                  /\ probes[c] = <<>>
            /\ origin[c] = "op" => tierLog[c][tier[c]] = "ok" /\ probes[c] = <<>>

\* C8 witness: a call returned the entry of AsyncStorage after its primary
\* and its fallback had failed.
C8_Witness ==
    /\ pc["c1"] = "done"
    /\ origin["c1"] = "durable"
    /\ nfb["c1"] = MaxFallbacks
    /\ AllTiersFailed("c1")

(***************************************************************************)
(* Properties of checkRateLimit.                                           *)
(***************************************************************************)

\* "true" when b, else "false": the values of rlLast.
Returned(b) == IF b THEN "true" ELSE "false"

\* C4 as stated: in a window the first maxRequests calls return true and the
\* later ones false, and the first call after the reset time has passed
\* returns true.
C4_WindowSemantics ==
    \A s \in RateLimitKeys :
        rlCalls[s].open =>
            /\ rlLast[s] = Returned(rlCalls[s].calls <= rlParams.maxRequests)
            /\ rlCalls[s].calls = 1 => rlLast[s] = "true"

\* C4 amended: in a window the first maxRequests calls return true and the
\* later ones false; with maxRequests at least 1 the first call after the
\* reset time has passed starts a new window, counts as its first request and
\* returns true; with maxRequests 0 every call returns false.
C4_WindowSemanticsPositive ==
    \A s \in RateLimitKeys :
        rlCalls[s].open =>
            /\ rlLast[s] = Returned(rlCalls[s].calls <= rlParams.maxRequests)
            /\ rlParams.maxRequests >= 1 =>
                   /\ rlCalls[s].calls = 1 => rlLast[s] = "true"
                   /\ rateLimits[s].present
                   /\ rateLimits[s].resetTime = rlCalls[s].until
                   /\ rateLimits[s].count =
                          IF rlCalls[s].calls <= rlParams.maxRequests
                          THEN rlCalls[s].calls ELSE rlParams.maxRequests
            /\ rlParams.maxRequests = 0 => rlLast[s] = "false"

\* C4 witness: after a window in which a call was denied, the first call of
\* the next window has returned true.
C4_Witness ==
    \E s \in RateLimitKeys :
        /\ rlParams = DefaultParams
        /\ rlCalls[s].open
        /\ rlCalls[s].deniedBefore
        /\ rlCalls[s].calls = 1
        /\ rlLast[s] = "true"

(***************************************************************************)
(* Properties of PreloadingService.                                        *)
(***************************************************************************)

\* C9: getArticles never ends with an error thrown to its caller.
C9_GetArticlesNeverThrows ==
    \A t \in Tasks : task[t].kind = "getArticles" => task[t].outcome # "thrown"

\* C10: a getArticles call that finds an entry of its category younger than
\* the ttl returns that entry's articles in the same step, does not call the
\* network service and leaves the preloaded cache as it was.
C10_ValidEntryServedUntouched ==
    [][\A t \in Tasks, category \in Categories :
          (/\ task[t].pc = "idle"
           /\ task'[t].kind = "getArticles"
           /\ task'[t].category = category
           /\ preloadedCache[category].present
           /\ now - preloadedCache[category].timestamp < PRELOADING_CACHE_TTL)
          => /\ task'[t].pc = "done"
             /\ task'[t].outcome = "returned"
             /\ task'[t].result.data = preloadedCache[category].articles
             /\ ~task'[t].invoked
             /\ preloadedCache' = preloadedCache]_vars

\* C10 witness: a call was answered from the entry of its category while a
\* preload of the same category was waiting for the network.
C10_Witness ==
    /\ preloadedCache["india"].present
    /\ task["t1"].kind = "getArticles"
    /\ task["t1"].pc = "done"
    /\ task["t1"].category = "india"
    /\ task["t1"].result = Response(preloadedCache["india"].articles,
                                    preloadedCache["india"].source, "Cached")
    /\ task["t2"].kind = "preloadCategory"
    /\ task["t2"].category = "india"

\* l is in descending order of overallScore for the category.
IsRanked(l, category) ==
    \A i \in 1..(Len(l) - 1) :
        OverallScore(l[i], category) >= OverallScore(l[i + 1], category)

\* No two articles of l have similar titles.
IsDeduplicated(l) ==
    \A i, j \in 1..Len(l) : i < j => ~IsSimilarTitle(l[i], l[j])

\* C11: a getArticles call that fetched a list with articles returns them
\* without duplicates and in descending order of overallScore, and the list
\* it returns is the list it has just stored for the category.
C11_ReturnedIsStoredRanking ==
    [][\A t \in Tasks :
          (/\ task[t].kind = "getArticles"
           /\ task[t].pc = "fetching"
           /\ task'[t].pc = "done"
           /\ task'[t].outcome = "returned"
           /\ task'[t].result.data # <<>>)
          => /\ IsDeduplicated(task'[t].result.data)
             /\ IsRanked(task'[t].result.data, task[t].category)
             /\ preloadedCache'[task[t].category].present
             /\ preloadedCache'[task[t].category].articles = task'[t].result.data]_vars

\* C12: with no entry for the category, when the first service of the chain
\* fails and the next one returns five articles of which two carry the same
\* title, getArticles returns four articles, no two with similar titles, in
\* descending order of overallScore, under the label of the second service.
C12_EndToEnd ==
    \A t \in Tasks :
        (/\ task[t].kind = "getArticles"
         /\ task[t].pc = "done"
         /\ task[t].outcome = "returned"
         /\ ~task[t].cached.present
         /\ task[t].response =
                NetworkGetArticles(<<Failed, Served(<<1, 4, 3, 6, 5>>)>>, "ok"))
        => /\ Len(task[t].result.data) = 4
           /\ IsDeduplicated(task[t].result.data)
           /\ IsRanked(task[t].result.data, task[t].category)
           /\ task[t].result.source = ProviderLabel("guardian")
           /\ task[t].result.label = "Network"

\* C13: a checkRateLimit call that returns false leaves the stored count and
\* reset time of every service as they were before the call, the denied
\* service included.
C13_DeniedCallNoSideEffects ==
    [][\A s \in RateLimitKeys :
          (rlCalls'[s] # rlCalls[s] /\ rlLast'[s] = "false")
          => rateLimits' = rateLimits]_vars

\* C14: in any interleaving of checkRateLimit calls the counters are per key:
\* a call on one service changes no other service's record, the stored count
\* of a service does not decrease while its window stays the same, it equals
\* the number of calls on that service that returned true in the window, and
\* it never exceeds maxRequests.
C14_CountIsGrantedCalls ==
    \A s \in RateLimitKeys :
        rateLimits[s].present =>
            /\ rateLimits[s].count = rlGranted[s]
            /\ rateLimits[s].count <= rlParams.maxRequests

C14_PerKeyMonotone ==
    \A s \in RateLimitKeys :
        rlCalls'[s] # rlCalls[s] =>
            /\ \A k \in Services \ {s} : rateLimits'[k] = rateLimits[k]
            /\ (/\ rateLimits[s].present
                /\ rateLimits'[s].resetTime = rateLimits[s].resetTime)
               => rateLimits'[s].count >= rateLimits[s].count

C14_PerKeyCounters == []C14_CountIsGrantedCalls /\ [][C14_PerKeyMonotone]_vars

C14_Witness ==
    \E s \in RateLimitKeys, k \in RateLimitKeys :
        /\ s # k
        /\ rateLimits[s].present /\ rateLimits[k].present
        /\ rateLimits[s].count = DEFAULT_MAX_REQUESTS /\ rlLast[s] = "false"
        /\ rlGranted[s] = DEFAULT_MAX_REQUESTS
        /\ rateLimits[k].count = 1 /\ rlLast[k] = "true"
        /\ rateLimits[k].resetTime # rateLimits[s].resetTime

\* C15: when checkRateLimit denies a tier, primary or fallback, the tier's
\* operation is not invoked, no retry is counted and no failure record is
\* logged for it, and executeWithFallback goes on to the next tier: the next
\* fallback's checkRateLimit, or the cache tiers when no fallback is left. A
\* denied tier is not tried later in the same call (the call ends when pc
\* returns to "idle").
C15_DenialStep(c) ==
    (/\ pc[c] = "rateLimit" /\ ~allowed[c]
     /\ (pc'[c] # pc[c] \/ tier'[c] # tier[c]))
    => /\ tierLog'[c] = [tierLog[c] EXCEPT ![tier[c]] = "denied"]
       /\ errorLog' = errorLog
       /\ retryCount'[c] = retryCount[c]
       /\ IF tier[c] < nfb[c]
          THEN tier'[c] = tier[c] + 1 /\ pc'[c] = "rateLimit"
          ELSE tier'[c] = tier[c] /\ pc'[c] \in {"done", "getItem"}

C15_DeniedStaysDenied(c) ==
    \A i \in TierIds :
        (tierLog[c][i] = "denied" /\ pc'[c] # "idle") => tierLog'[c][i] = "denied"

C15_DeniedTierSkipped ==
    [][\A c \in Calls : C15_DenialStep(c) /\ C15_DeniedStaysDenied(c)]_vars

C15_Witness ==
    \E c \in Calls :
        /\ nfb[c] = 1
        /\ tierLog[c][0] = "denied"
        /\ tierLog[c][1] = "invoked"
        /\ pc[c] = "op"
        /\ errorLog = <<>>

\* C16: the failure log never holds more than MAX_ERROR_LOG records (100 in
\* the source); a failure logged while the log is full discards the oldest
\* record and keeps the others in their order, the new record last.
C16_LogBounded == Len(errorLog) <= MAX_ERROR_LOG

C16_Kept == IF Len(errorLog) = MAX_ERROR_LOG THEN Tail(errorLog) ELSE errorLog

C16_LogStep ==
    /\ errorLog' # errorLog =>
           /\ Len(errorLog') > 0
           /\ errorLog' = Append(C16_Kept, errorLog'[Len(errorLog')])
    /\ \A c \in Calls :
           (pc[c] = "op" /\ tierLog'[c][tier[c]] = "failed") =>
               errorLog' = Append(C16_Kept, [service |-> TierName(tier[c]),
                                             timestamp |-> now, retryCount |-> 0])

C17_WriteStep ==
    (Len(pending') > Len(pending) /\ pending'[Len(pending')].op = "setItem") =>
        LET o == pending'[Len(pending')] IN
        /\ cache'[o.key] = o.entry
        /\ \E c \in Calls :
              /\ pc[c] \in {"op", "retried"}
              /\ result'[c] = o.entry.data
              /\ pc[c] = "op" => pc'[c] = "retried"
              /\ pc[c] = "retried" => pc'[c] = "done" /\ outcome'[c] = "returned"

C17_CompletionStep ==
    (/\ pending # <<>> /\ pending' # pending
     /\ Len(pending') <= Len(pending)
     /\ Head(pending).op = "setItem")
    => /\ cache' = cache
       /\ <<pc, result, outcome, origin, errorLog>>' = <<pc, result, outcome, origin, errorLog>>
       /\ storage' \in {storage, [storage EXCEPT ![Head(pending).key] = Head(pending).entry]}

C17_NoThrow == \A c \in Calls : outcome[c] \in {"none", "returned"}

C17_WriteFailureContained ==
    []C17_NoThrow /\ [][C17_WriteStep /\ C17_CompletionStep]_vars

C17_Witness ==
    \E c \in Calls :
        /\ pc[c] = "done" /\ outcome[c] = "returned" /\ origin[c] = "op"
        /\ pending = <<>>
        /\ cache[CacheKey].present
        /\ cache[CacheKey].data = result[c]
        /\ ~storage[CacheKey].present

\* C18: a key absent from memory and requested through the durable tier.
\* The stored entry is returned, and installed in memory, only if
\* now - timestamp < ttl; an expired one is treated as absent (the call ends
\* with placeholder data, memory unchanged); memory gains an entry from the
\* store in no other step, so nothing is loaded before a request.
C18_GetItemStep(c) ==
    (pc[c] = "getItem" /\ pc'[c] # "getItem") =>
        /\ ~cache[CacheKey].present
        /\ origin'[c] = "durable" =>
               /\ storage[CacheKey].present
               /\ now - storage[CacheKey].timestamp < storage[CacheKey].ttl
               /\ result'[c] = storage[CacheKey].data
               /\ cache' = [cache EXCEPT ![CacheKey] = storage[CacheKey]]
        /\ origin'[c] # "durable" => cache' = cache
        /\ (storage[CacheKey].present /\ ~IsFresh(storage[CacheKey], now)) =>
               \/ pc'[c] = "removeItem" /\ outcome'[c] = "none"
               \/ durable'[c] = "failed" /\ origin'[c] \in {"mock", "sample"}

C18_RemoveItemStep(c) ==
    (pc[c] = "removeItem" /\ pc'[c] # "removeItem") =>
        /\ cache' = cache
        /\ origin'[c] \in {"mock", "sample"}

C18_NothingLoadedEarly ==
    (/\ cache'[CacheKey] # cache[CacheKey] /\ cache'[CacheKey].present
     /\ pending' = pending)
    => \E c \in Calls : pc[c] = "getItem" /\ origin'[c] = "durable"

C18_LoadSteps ==
    /\ \A c \in Calls : C18_GetItemStep(c) /\ C18_RemoveItemStep(c)
    /\ C18_NothingLoadedEarly

C19_ClearStep ==
    (Len(pending') > Len(pending) /\ pending'[Len(pending')].op = "getAllKeys") =>
        \A k \in Keys : ~cache'[k].present

C19_RemovalStep ==
    (/\ pending # <<>> /\ pending' = Tail(pending)
     /\ Head(pending).op = "multiRemove")
    => \/ storage' = storage
       \/ \A k \in Head(pending).keys : ~storage'[k].present

C19_Eviction == [][C19_ClearStep /\ C19_RemovalStep]_vars

C19_ClearCacheEvicts == []~unhandled /\ C19_Eviction

\* C20: a degraded result is marked in its source label. A returned
\* executeWithFallback result that did not come from an operation succeeding
\* in this call carries an annotated label, not the plain name a provider
\* response (kind "provider") carries; a returned
\* getArticles result taken from preloadedCache carries "(Cached)" or
\* "(Offline)"; and neither call ends with an exception.
C20_Annotated(d) == d.kind # "provider" /\ d.source \in PlaceholderLabels

C20_FallbackPart ==
    \A c \in Calls :
        pc[c] = "done" =>
            /\ outcome[c] = "returned"
            /\ origin[c] # "op" => C20_Annotated(result[c])

C20_PreloadPart ==
    \A t \in Tasks :
        (task[t].kind = "getArticles" /\ task[t].pc = "done") =>
            /\ task[t].outcome = "returned"
            /\ ~task[t].invoked => task[t].result.label \in {"Cached", "Offline"}

C20_DegradedIsLabelled == C20_FallbackPart /\ C20_PreloadPart

\* C21: when the caller-level timer expires before the fetch pipeline has
\* completed, NetworkService.getArticles leaves the pipeline behind and
\* returns the best cached result for the category, fresh or stale: the step
\* in which it returns after a timeout does not wait for the pipeline, does
\* not throw, and hands back the payload the cache holds for the key, in
\* memory or else in the durable store, when there is one.
C21_BestCached ==
    IF cache[CacheKey].present THEN cache[CacheKey].data ELSE storage[CacheKey].data

C21_TimeoutStep ==
    (nsTimedOut /\ nsPc = "mock" /\ nsPc' = "done") =>
        /\ nsResult'.kind # "none"
        /\ (cache[CacheKey].present \/ storage[CacheKey].present)
               => nsResult' = C21_BestCached

C21_TimeoutReturnsCached == [][C21_TimeoutStep]_vars

\* C22: refreshCategory(X) force-invalidates X. A getArticles(X) that answers
\* from preloadedCache never hands out an entry whose articles were requested
\* before a refreshCategory(X) that has been invoked since, whatever
\* preloadCategory(X) or getArticles(X) calls were in flight at that moment.
C22_RefreshInvalidates ==
    \A t \in Tasks :
        (/\ task[t].kind = "getArticles" /\ task[t].pc = "done"
         /\ task[t].outcome = "returned"
         /\ task[t].result.label = "Cached")
        => ~task[t].cached.fetchedBeforeRefresh

\* C23: round-robin fairness of combineAndDiversifyArticles. When k >= 2
\* sources have at least one article left after the duplicates are removed
\* and targetCount >= k, the first k articles returned come from k different
\* sources.
C23_Contributors ==
    {DivArticleOf(a).source :
        a \in {RemoveDuplicateArticles(Flat(fnIn.articleArrays))[i] :
                  i \in 1..Len(RemoveDuplicateArticles(Flat(fnIn.articleArrays)))}}

C23_HeadIsDiverse ==
    LET k == Cardinality(C23_Contributors)
    IN  (fnDone /\ k >= 2 /\ fnIn.targetCount >= k) =>
            /\ Len(fnOut) >= k
            /\ Cardinality({DivArticleOf(fnOut[i]).source : i \in 1..k}) = k

\* C24: removeDuplicateArticles is idempotent: applied to its own output it
\* removes nothing, that is, no two articles of the output have titles that
\* the similarity test of line 82 calls duplicates.
C24_Idempotent ==
    fnDone =>
        /\ RemoveDuplicateArticles(fnOut) = fnOut
        /\ \A i, j \in 1..Len(fnOut) :
              i # j => ~CalculateSimilarityAbove(DivArticleOf(fnOut[i]).titleKey,
                                                DivArticleOf(fnOut[j]).titleKey)

\* C26: of every group of articles that removeDuplicateArticles collapses
\* into one, the one kept has the longest description: no article of the
\* input whose title is a duplicate of a kept article's title has a longer
\* description than that kept article.
C26_LongestKept ==
    fnDone =>
        \A i \in 1..Len(fnIn) :
            (\A j \in 1..Len(fnOut) : fnOut[j] # fnIn[i]) =>
                \E j \in 1..Len(fnOut) :
                    /\ CalculateSimilarityAbove(DivArticleOf(fnIn[i]).titleKey,
                                                DivArticleOf(fnOut[j]).titleKey)
                    /\ DivArticleOf(fnOut[j]).descLen >= DivArticleOf(fnIn[i]).descLen

C27_Position(l, a) == CHOOSE i \in 1..Len(l) : l[i] = a

\* C27: rankArticlesByPopularity returns a permutation of its input, ordered
\* by non-increasing overallScore, and articles of equal overallScore keep the
\* relative order they had in the input.
C27_RankedStablePermutation ==
    fnDone =>
        /\ Len(fnOut) = Len(fnIn.articles)
        /\ {fnOut[i] : i \in 1..Len(fnOut)}
             = {fnIn.articles[i] : i \in 1..Len(fnIn.articles)}
        /\ \A i, j \in 1..Len(fnOut) :
              i < j =>
                /\ OverallScore(fnOut[i], fnIn.category)
                     >= OverallScore(fnOut[j], fnIn.category)
                /\ OverallScore(fnOut[i], fnIn.category)
                     = OverallScore(fnOut[j], fnIn.category)
                   => C27_Position(fnIn.articles, fnOut[i])
                        < C27_Position(fnIn.articles, fnOut[j])

\* A call whose input holds two articles of equal score behind one of a
\* lower score: the sort moves articles and meets a tie.
C27_Witness ==
    /\ fnDone
    /\ Len(fnOut) = MaxBatch
    /\ fnOut # fnIn.articles
    /\ \E i, j \in 1..Len(fnOut) :
          /\ i < j
          /\ OverallScore(fnOut[i], fnIn.category) = OverallScore(fnOut[j], fnIn.category)

\* The ages at which the recency score steps down (spec: <=2h, <=12h,
\* <=24h, <=72h, <=168h).
C28_Steps == {2, 12, 24, 72, 168}

\* C28 (as amended): of two articles that differ in publishedAt only, scored
\* at one instant for one target category, the more recent one never has
\* the lower overallScore, and it has a strictly higher one exactly when a
\* step of the recency score lies between the two ages.
C28_RecencyNeverLowers ==
    (fnDone /\ fnIn.age1 < fnIn.age2) =>
        /\ fnOut[1] >= fnOut[2]
        /\ fnOut[1] > fnOut[2]
             <=> \E h \in C28_Steps : fnIn.age1 <= h /\ h < fnIn.age2

\* C28 (as stated): the more recently published one has a strictly higher
\* overallScore.
C28_RecencyStrictlyRaises ==
    (fnDone /\ fnIn.age1 < fnIn.age2) => fnOut[1] > fnOut[2]

\* Two articles published an hour apart, both within the last two hours,
\* scored alike.
C28_Witness ==
    fnDone /\ fnIn.age1 = 0 /\ fnIn.age2 = 1 /\ fnOut[1] = fnOut[2]

\* Tier i of call c is over without a result: its operation failed on the
\* last attempt, or the rate limiter skipped it.
C29_Over(c, i) == tierLog[c][i] \in {"failed", "denied"}

\* In every state of a call, a tier that has been reached follows only tiers
\* that failed or were skipped, and a returned call with a tier that
\* succeeded returns that tier's result.
C29_InOrder ==
    \A c \in Calls :
        /\ \A i \in TierIds :
              tierLog[c][i] # "untried" =>
                  /\ i <= nfb[c]
                  /\ \A j \in 0..(i - 1) : C29_Over(c, j)
        /\ \A i \in TierIds :
              (tierLog[c][i] = "ok" /\ outcome[c] = "returned") =>
                  /\ result[c].kind = "provider"
                  /\ result[c].source = TierName(i)
                  /\ origin[c] = "op"

\* A tier is given up as failed only by a rejection of its operation with
\* the retries used up, and a tier that succeeded stays the call's last.
C29_TierStep ==
    \A c \in Calls : \A i \in TierIds :
        /\ (tierLog[c][i] # "failed" /\ tierLog'[c][i] = "failed") =>
              pc[c] = "op" /\ tier[c] = i /\ retryCount[c] = MAX_RETRIES
        /\ (tierLog[c][i] = "ok" /\ pc'[c] # "idle") =>
              /\ tierLog'[c] = tierLog[c]
              /\ tier'[c] = i

C30_TierInvocations(c, i) ==
    CASE tierLog[c][i] = "failed"            -> MAX_RETRIES + 1
      [] tierLog[c][i] \in {"invoked", "ok"} -> retryCount[c] + 1
      [] tierLog[c][i] = "hit"               -> retryCount[c]
      [] OTHER                               -> 0

RECURSIVE C30_InvocationsUpTo(_, _)
C30_InvocationsUpTo(c, i) ==
    IF i < 0 THEN 0
    ELSE C30_TierInvocations(c, i) + C30_InvocationsUpTo(c, i - 1)

\* The operation invocations of call c so far.
C30_Invocations(c) == C30_InvocationsUpTo(c, MaxFallbacks)

\* Call c invokes an operation in this step.
C30_Invokes(c) == pc[c] # "op" /\ pc'[c] = "op"

C30_Bounded ==
    \A c \in Calls :
        /\ retryCount[c] <= MAX_RETRIES
        /\ \A i \in TierIds : C30_TierInvocations(c, i) <= 1 + MAX_RETRIES
        /\ C30_Invocations(c) <= (1 + nfb[c]) * (1 + MAX_RETRIES)

C30_AttemptStep ==
    \A c \in Calls :
        /\ C30_Invokes(c) =>
              /\ C30_Invocations(c)' = C30_Invocations(c) + 1
              /\ \/ /\ pc[c] = "rateLimit"
                    /\ tierLog[c][tier[c]] = "untried"
                    /\ retryCount'[c] = 0
                 \/ /\ pc[c] = "sleep"
                    /\ tierLog[c][tier[c]] = "invoked"
                    /\ retryCount'[c] = retryCount[c] + 1
        /\ (~C30_Invokes(c) /\ pc'[c] # "idle") =>
              C30_Invocations(c)' = C30_Invocations(c)
        /\ (pc[c] # "sleep" /\ pc'[c] = "sleep") =>
              pc[c] = "op" /\ retryCount[c] < MAX_RETRIES

\* A call that has started returns, every invocation completing.
C30_Terminates == \A c \in Calls : (pc[c] = "rateLimit") ~> (pc[c] = "done")

\* C30: within one executeWithFallback call each tier's operation is invoked
\* at most 1 + MAX_RETRIES times, an attempt after the first starts only when
\* the attempt before it has failed, the call makes at most
\* (1 + number of fallbacks) * (1 + MAX_RETRIES) invocations, and it
\* terminates when every invocation completes.
C30_RetriesBounded == []C30_Bounded /\ [][C30_AttemptStep]_vars /\ C30_Terminates

\* Every tier of a call with a fallback failed on every attempt: the bound
\* is reached.
C30_Witness ==
    /\ pc["c1"] = "done"
    /\ nfb["c1"] = MaxFallbacks
    /\ \A i \in TierIds : tierLog["c1"][i] = "failed"
    /\ C30_Invocations("c1") = (1 + MaxFallbacks) * (1 + MAX_RETRIES)

\* C31: the step in which a tier of an executeWithFallback call fails adds
\* to the failure log a record with that tier's label, the time of the
\* failure and the number of retries performed for that tier.
C31_FailureStep ==
    \A c \in Calls :
        (pc[c] = "op" /\ tierLog'[c][tier[c]] = "failed") =>
            /\ Len(errorLog') > 0
            /\ errorLog'[Len(errorLog')] =
                  [service |-> TierName(tier[c]), timestamp |-> now,
                   retryCount |-> retryCount[c]]

C31_FailureLogged == [][C31_FailureStep]_vars

\* A call of getSoftwareArticles that has started returns.
C32_BoundedWait == (fanOut.pc = "waiting") ~> (fanOut.pc = "returned")

\* The merged result of a returned call holds the article of every provider
\* whose call succeeded.
C32_SiblingsKept ==
    fanOut.pc = "returned" =>
        \A p \in Providers :
            fanOut.results[p] = "fulfilled" =>
                \E i \in 1..Len(fanOut.data) : fanOut.data[i] = ProviderArticle(p)

\* C32: the fan-out has a bounded wait and isolates siblings: it returns even
\* if a provider call never completes, and a provider call that failed or
\* timed out does not cost the result the articles of those that succeeded.
C32_FanOutBounded == C32_BoundedWait /\ []C32_SiblingsKept

\* After startPreloading has returned every category of the list has one
\* timer, set or fired; the preloadCategory calls made so far are those of
\* the fired timers, one per category, in the order of the list, the i-th
\* not before i * 2000 ms.
C33_Scheduled ==
    /\ spReturned <=> \A i \in TimerIds : timers[i] \in {"set", "fired"}
    /\ Len(spLog) = Cardinality({i \in TimerIds : timers[i] = "fired"})
    /\ \A k \in 1..Len(spLog) :
          /\ timers[k] = "fired"
          /\ spLog[k].category = PRELOAD_CATEGORIES[k]
          /\ spLog[k].at >= k - 1

\* The step in which startPreloading runs and returns starts no preload and
\* touches no cache entry; no step lets a preloadCategory call begin that
\* is not a timer's.
C33_ReturnStep ==
    /\ (~spReturned /\ spReturned') => (task' = task /\ preloadedCache' = preloadedCache)
    /\ \A t \in Tasks :
          (task[t].pc = "idle" /\ task'[t].kind = "preloadCategory") =>
              /\ Len(spLog') = Len(spLog) + 1
              /\ spLog'[Len(spLog')].category = task'[t].category

\* Every category's preload starts, whatever becomes of the others.
C33_AllStart == spReturned ~> (\A i \in TimerIds : timers[i] = "fired")

\* C33: startPreloading schedules exactly one preload per category of the
\* priority list and returns without waiting; the i-th preload starts after
\* i * 2000 ms, so in priority order; a failed preload neither prevents nor
\* delays the others.
C33_StaggeredPreloads == []C33_Scheduled /\ [][C33_ReturnStep]_vars /\ C33_AllStart

\* The preload of INDIA starts at 2000 ms, when the preload of ALL, started
\* at 0, has ended without storing anything.
C33_Witness ==
    /\ Len(spLog) = 2
    /\ spLog[1].at = 0
    /\ spLog[2].at = 1
    /\ preloadedCache["all"] = NoPreload
    /\ \E t \in Tasks : task[t].kind = "preloadCategory" /\ task[t].category = "india"
    /\ \A t \in Tasks : ~(task[t].kind = "preloadCategory" /\ task[t].category = "all")

\* The category the call in slot t works on in this step.
C34_CategoryOf(t) ==
    IF task[t].pc = "idle" THEN task'[t].category ELSE task[t].category

\* C34: requests for different categories are independent: a step of
\* getArticles, refreshCategory or preloadCategory (also when a timer of
\* preloadRelatedCategories calls it) for category X creates, changes or
\* deletes no preloaded-cache entry but that of X, in any interleaving.
C34_OwnEntryOnly ==
    \A y \in Categories :
        preloadedCache'[y] # preloadedCache[y] =>
            /\ \E t \in Tasks : task'[t] # task[t] /\ C34_CategoryOf(t) = y
            /\ \A t \in Tasks : task'[t] # task[t] => C34_CategoryOf(t) = y

C34_CategoriesIndependent == [][C34_OwnEntryOnly]_vars

\* Calls for the two categories are in flight together while the entry of
\* one of them is in the cache.
C34_Witness ==
    /\ preloadedCache["all"].present
    /\ ~preloadedCache["india"].present
    /\ \E t, u \in Tasks :
          /\ task[t].pc = "fetching" /\ task[t].category = "india"
          /\ task[u].pc = "fetching" /\ task[u].category = "all"

\* Call c is answered from a fresh cached entry in this step, or hands that
\* answer back to its caller.
C35_HitStep(c) ==
    \/ pc[c] # "retried" /\ pc'[c] = "retried" /\ origin'[c] = "retryCache"
    \/ pc[c] = "retried" /\ origin[c] = "retryCache" /\ pc'[c] # "retried"

\* C35: a cache hit does not renew an entry: a call answered from a fresh
\* cached entry leaves the entry, its timestamp included, as it was, so only
\* a provider operation that succeeded extends the time the data is served
\* as fresh.
C35_EntryKept ==
    \A c \in Calls :
        (C35_HitStep(c) /\ cache[CacheKey].present) =>
            cache'[CacheKey] = cache[CacheKey]

C35_HitDoesNotRenew == [][C35_EntryKept]_vars

\* The invocations of the operation of tier i by the calls in flight, all of
\* them within one rate-limit window.
C36_WindowInvocations(i) ==
    C30_TierInvocations("c1", i) + C30_TierInvocations("c2", i)

C36_InvocationsBounded ==
    \A i \in TierIds : C36_WindowInvocations(i) <= DEFAULT_MAX_REQUESTS

\* executeWithFallback is called while the entry of its key is fresh: with no
\* time passing the call is answered from the cache, by executeWithRetry or
\* from the snapshot of line 287.
C36_StartsOnFreshEntry(c) ==
    pc[c] = "idle" /\ pc'[c] = "rateLimit" /\ IsFresh(cache[CacheKey], now)

C36_HitIsFree ==
    \A c \in Calls : C36_StartsOnFreshEntry(c) => rateLimits' = rateLimits

\* C36: the rate limiter bounds the provider invocations: within one window
\* the operation of a tier is invoked, retries included, at most maxRequests
\* times, and a call answered from the cache consumes none of the budget.
C36_LimiterBoundsInvocations ==
    []C36_InvocationsBounded /\ [][C36_HitIsFree]_vars

\* Every entry of the preloaded cache holds at least one article.
C37_EntriesHaveArticles ==
    \A y \in Categories :
        preloadedCache[y].present => Len(preloadedCache[y].articles) > 0

\* The getArticles call in slot t ends in this step without articles from
\* the network: with an error, with the stale entry, or with an empty list.
C37_GetArticlesFails(t) ==
    /\ task'[t].kind = "getArticles"
    /\ task[t].pc # "done" /\ task'[t].pc = "done"
    /\ \/ task'[t].outcome = "thrown"
       \/ task'[t].result.label = "Offline"
       \/ task'[t].result.data = <<>>

\* The only change a step makes to the preloaded cache is to store a list
\* with articles under the present time; a getArticles call that fails
\* changes nothing.
C37_OnlyStores ==
    /\ \A y \in Categories :
          preloadedCache'[y] # preloadedCache[y] =>
              /\ preloadedCache'[y].present
              /\ Len(preloadedCache'[y].articles) > 0
              /\ preloadedCache'[y].timestamp = now
    /\ \A t \in Tasks : C37_GetArticlesFails(t) => UNCHANGED preloadedCache

\* C37: a preloadCategory or getArticles call that fails or gets an empty
\* list leaves the preloaded cache as it was: an entry, stale or not, is
\* neither removed nor overwritten by it, and so every entry the cache ever
\* holds has at least one article.
C37_FailureKeepsCache == []C37_EntriesHaveArticles /\ [][C37_OnlyStores]_vars

\* getArticles has returned the network's empty list while the stale entry
\* of its category is still in the cache.
C37_Witness ==
    \E t \in Tasks :
        /\ task[t].kind = "getArticles" /\ task[t].pc = "done"
        /\ task[t].invoked /\ task[t].result.data = <<>>
        /\ preloadedCache[task[t].category].present
        /\ ~IsCacheValid(preloadedCache[task[t].category].timestamp, now)
        /\ task[t].cached = preloadedCache[task[t].category]

\* The articles of source src among the first k of list l.
C38_Count(l, src, k) ==
    Cardinality({i \in 1..k : DivArticleOf(l[i]).source = src})

C38_Sources == {DivArticleOf(a).source : a \in DivIds}

\* Every input article is in the output exactly once, and nothing else is.
C38_Permutation(in, out) ==
    /\ Len(out) = Len(in)
    /\ \A a \in DivIds :
          Cardinality({i \in 1..Len(out) : out[i] = a})
              = Cardinality({i \in 1..Len(in) : in[i] = a})

\* Two articles of one source come in the output as they came in the input.
C38_SourceOrderKept(in, out) ==
    \A i, j \in 1..Len(out) :
        (i < j /\ DivArticleOf(out[i]).source = DivArticleOf(out[j]).source) =>
            \E m, n \in 1..Len(in) : m < n /\ in[m] = out[i] /\ in[n] = out[j]

\* In every prefix, two sources that both have articles left are at most
\* one article apart.
C38_PrefixBalanced(out) ==
    \A k \in 0..Len(out) : \A s1, s2 \in C38_Sources :
        (/\ C38_Count(out, s1, k) < C38_Count(out, s1, Len(out))
         /\ C38_Count(out, s2, k) < C38_Count(out, s2, Len(out))) =>
            /\ C38_Count(out, s1, k) - C38_Count(out, s2, k) <= 1
            /\ C38_Count(out, s2, k) - C38_Count(out, s1, k) <= 1

\* The call has at least minSources sources before it and interleaves.
C38_Interleaves ==
    Cardinality({DivArticleOf(fnIn.articles[i]).source : i \in 1..Len(fnIn.articles)})
        >= fnIn.minSources

\* C38: ensureSourceDiversity returns a permutation of its input; when it
\* interleaves, the articles of each source keep their input order and, in
\* every prefix of the output, two sources that both have articles left
\* differ by at most one article.
C38_DiversityIsFairPermutation ==
    fnDone =>
        /\ C38_Permutation(fnIn.articles, fnOut)
        /\ C38_Interleaves =>
              /\ C38_SourceOrderKept(fnIn.articles, fnOut)
              /\ C38_PrefixBalanced(fnOut)

\* An interleaving call has returned four articles of two sources, three of
\* them of one source: once the other source is used up the prefix counts
\* are two apart.
C38_Witness ==
    /\ fnDone /\ C38_Interleaves /\ Len(fnOut) = 4
    /\ fnOut # fnIn.articles
    /\ \E s1, s2 \in C38_Sources :
          C38_Count(fnOut, s1, 4) = 3 /\ C38_Count(fnOut, s2, 4) = 1

====
